---------------------------- MODULE Spec2Model ----------------------------
(***************************************************************************)
(* A model of aws_cleaner: the Tk front end and its worker thread          *)
(* (aws_cleanup_gui.py), the per-service cleaners (cleaner/*.py) and the   *)
(* log filter (update_logging.py).                                         *)
(*                                                                         *)
(* The specifications share the variables:                                 *)
(*   Spec       the GUI thread and the worker thread of run_cleanup, with  *)
(*              a cleaner invocation as one step that returns or raises;   *)
(*   SpecClean  one invocation of one cleaner's clean(), resource by       *)
(*              resource, recording every mutating provider call;          *)
(*   SpecFilter filter_log_file, statement by statement;                   *)
(*   SpecMain   update_logging.main, its search for the log file;          *)
(*   SpecRegion one region of the run with its security groups followed    *)
(*              from the EC2 cleaner to the VPC cleaner;                   *)
(*   SpecLog    the logging calls of one loop iteration of a cleaner and   *)
(*              the handlers that receive them;                            *)
(*   SpecView   TextHandler and the log pane;                              *)
(*   SpecTwice  the loop body of filter_log_file applied to one line and   *)
(*              to its own result, the line spelled in pieces smaller than *)
(*              the markers.                                               *)
(***************************************************************************)
EXTENDS Integers, Sequences, FiniteSets, TLC

(***************************************************************************)
(* Bounds of the model.                                                    *)
(***************************************************************************)
\* regions the provider may return from describe_regions
MaxRegions == 2
\* cleaner invocations that may raise in one run
MaxRaise == 1
\* lines of the log file given to filter_log_file
MaxLines == 2
\* text fragments in the whole log file
MaxTokens == 3
\* runs of filter_log_file on the same file
MaxFilterRuns == 2
\* resources the provider lists during one invocation of a cleaner (the VPCs
\* of describe_vpcs not counted)
MaxRes == 2
\* VPCs the provider lists in one region
MaxVpcs == 2
MaxParts == 1
\* update_logging.main: subdirectories of the working directory
MaxSub == 2

VARIABLES
    \* ---- aws_cleanup_gui.py: GUI thread
    profile_var,      \* tk.StringVar: "" when nothing is chosen
    dry_run_var,      \* tk.BooleanVar
    resource_vars,    \* the set of resource names whose BooleanVar is True
    start_button,     \* "normal" | "disabled"
    messagebox,       \* the last dialog shown
    after_pending,    \* a root.after(100, check_thread_status) timer is scheduled
    dialogs,          \* completion dialogs shown since the last confirmed Start
    \* ---- aws_cleanup_gui.py: worker thread (run_cleanup)
    wpc,              \* position of the worker in run_cleanup
    args,             \* (profile, resources, dry_run) handed to the thread
    regions,          \* the list built from describe_regions
    ri, mi,           \* indexes of the regional loops
    events,           \* provider/cleaner calls made by the worker, in order
    thread_exit,      \* how the thread's target ended
    \* ---- update_logging.py: filter_log_file
    file,             \* the text of the log file at file_path
    backups,          \* the backup files: a set of [ts, content]
    now,              \* the clock, in seconds (datetime.now())
    fpc,              \* position in filter_log_file
    content,          \* the local content
    filtered_lines,   \* the local filtered_lines
    li,               \* index of "for line in original_lines"
    backup_path,      \* timestamp of the local backup_path, 0 before it is written
    fresult,          \* how the call went
    filter_runs,      \* calls of filter_log_file so far
    \* ---- cleaner/*.py: one invocation of clean()
    cleaner,          \* the module whose clean() runs
    dry_run,          \* its dry_run argument
    cpc,              \* the step of clean() being executed
    phase,            \* "list": before the step's listing call, "loop": in its loop
    todo,             \* the listed resources the loop has not reached yet
    calls,            \* the mutating provider calls issued so far, in order
    budget,           \* resources the provider may still list
    vpcs,             \* vpc.py: the list vpcs['Vpcs']
    vi,               \* vpc.py: index of "for vpc in vpcs['Vpcs']"
    cexit,            \* how clean() ended
    region_name,      \* the region argument of clean()
    \* ---- update_logging.py: main
    argv,             \* sys.argv[1], NoArg when the script got no argument
    exists,           \* the paths for which os.path.exists is true
    mpc,              \* position in main
    log_files,        \* the local log_files still to be filtered
    filtered,         \* the paths handed to filter_log_file, in order
    \* ---- the provider's side of one region
    sgs,              \* the security groups of the region that still exist
    results,          \* the provider's answer to each call of calls
    \* ---- the logging calls of one loop iteration of a cleaner
    probe,            \* the iteration: module, step, resource, outcomes, cause
    modes,            \* the values of dry_run the iteration was run with
    records,          \* the records of its logger calls, in order
    log_file,         \* the records written to aws_cleanup.log
    console,          \* the records written to sys.stdout
    \* ---- aws_cleanup_gui.py: TextHandler and the log pane
    emits,            \* logging calls the worker has made on the GUI's logger
    after_queue,      \* the append callbacks Tk holds after after(0, append)
    log_text,         \* the lines of the ScrolledText widget
    text_state,       \* its state option: "normal" | "disabled"
    \* ---- update_logging.py: one line through two calls of filter_log_file
    original_line,    \* the line of the file before the first call
    first_pass,       \* filtered_lines of the first call
    second_pass,      \* filtered_lines of the second call
    passes            \* calls made so far

guiVars == <<profile_var, dry_run_var, resource_vars, start_button, messagebox,
             after_pending, dialogs>>
workerVars == <<wpc, args, regions, ri, mi, events, thread_exit>>
filterVars == <<file, backups, now, fpc, content, filtered_lines, li,
                backup_path, fresult, filter_runs>>
\* the regions clean() is called for; 'us-east-1' is the one s3.py names
DefaultRegion == "us-east-1"
RegionNames == {DefaultRegion, "eu-west-1"}

cleanVars == <<cleaner, dry_run, cpc, phase, todo, calls, budget, vpcs, vi,
               cexit, region_name>>
\* the variables outside aws_cleanup_gui.py
mainVars == <<argv, exists, mpc, log_files, filtered>>
\* the variables added to the three areas above
regionVars == <<sgs, results>>
logVars == <<probe, modes, records, log_file, console>>
viewVars == <<emits, after_queue, log_text, text_state>>
twiceVars == <<original_line, first_pass, second_pass, passes>>
extraVars == <<mainVars, regionVars, logVars, viewVars, twiceVars>>
otherVars == <<filterVars, cleanVars, extraVars>>
vars == <<guiVars, workerVars, otherVars>>

(***************************************************************************)
(* Helpers on sequences.                                                   *)
(***************************************************************************)
Range(s) == {s[i] : i \in DOMAIN s}

RECURSIVE Filter(_, _)
\* the subsequence of s whose elements are in the set keep
Filter(s, keep) ==
    IF s = <<>> THEN <<>>
    ELSE IF Head(s) \in keep THEN <<Head(s)>> \o Filter(Tail(s), keep)
         ELSE Filter(Tail(s), keep)


(***************************************************************************)
(* update_logging.py, main: the paths it looks at.                         *)
(***************************************************************************)
Path(dir, n) == [dir |-> dir, n |-> n]
NoArg == Path("none", 0)
\* os.path.join(os.getcwd(), 'aws_cleanup.log')
CwdLog == Path("cwd", 0)
\* os.path.join(parent_dir, 'aws_cleanup.log')
ParentLog == Path("parent", 0)
\* an aws_cleanup.log in the n-th subdirectory os.walk visits
SubLog(n) == Path("sub", n)
\* a file outside the places main searches
OtherFile == Path("elsewhere", 0)
Paths == {CwdLog, ParentLog, OtherFile} \cup {SubLog(n) : n \in 1..MaxSub}

\* main is not running
MainIdle ==
    /\ argv = NoArg /\ exists = {} /\ mpc = "idle"
    /\ log_files = <<>> /\ filtered = <<>>

\* no region is being cleaned with its provider state followed
RegionIdle == sgs = <<>> /\ results = <<>>

\* no logging call is followed
NoProbe == [module |-> "", step |-> ""]
LogIdle ==
    /\ probe = NoProbe /\ modes = {} /\ records = <<>>
    /\ log_file = <<>> /\ console = <<>>

\* create_widgets: the log pane is empty and disabled
ViewIdle ==
    /\ emits = 0 /\ after_queue = <<>> /\ log_text = <<>>
    /\ text_state = "disabled"

\* no line is followed
TwiceIdle ==
    /\ original_line = <<>> /\ first_pass = <<>> /\ second_pass = <<>>
    /\ passes = 0

ExtraIdle == MainIdle /\ RegionIdle /\ LogIdle /\ ViewIdle /\ TwiceIdle

(***************************************************************************)
(* aws_cleanup_gui.py                                                      *)
(***************************************************************************)
\* the keys of self.resource_vars, in the dict's order
ResourceOrder == <<"EC2", "S3", "Lambda", "CloudFormation", "RDS", "VPC", "IAM">>
ResourceNames == Range(ResourceOrder)

\* the order in which run_cleanup fills resource_modules
ModuleOrder == <<"EC2", "S3", "Lambda", "CloudFormation", "RDS", "VPC", "IAM">>

\* the checkboxes the operator toggles one by one (the others only through
\* Select All / Deselect All)
Toggleable == {"IAM"}
\* what the operator may put in the profile box
ProfileChoices == {"", "default"}
\* the answers of describe_regions: the first n regions, in either order
RegionLists ==
    {[i \in 1..n |-> i] : n \in 0..MaxRegions} \cup
    {[i \in 1..n |-> n + 1 - i] : n \in 0..MaxRegions}

NoArgs == [profile |-> "", resources |-> <<>>, dry_run |-> TRUE]

\* selected_resources of start_cleanup
selected_resources == Filter(ResourceOrder, resource_vars)

\* resource_modules of run_cleanup, as the list of its keys
resource_modules_reversed(resources) ==
    LET m == Filter(ModuleOrder, Range(resources))
    IN  [i \in 1..Len(m) |-> m[Len(m) + 1 - i]]
resource_modules_elif(resources) == <<Head(Filter(ModuleOrder, Range(resources)))>>
resource_modules(resources) == Filter(ModuleOrder, Range(resources))

Event(op, module, region, dry, raised) ==
    [op |-> op, module |-> module, region |-> region, dry_run |-> dry,
     raised |-> raised]

\* the cleaner invocations of evs that raised
Raised(evs) ==
    Cardinality({i \in DOMAIN evs : evs[i].op = "clean" /\ evs[i].raised})

GuiInit ==
    /\ profile_var \in ProfileChoices
    /\ dry_run_var = TRUE
    /\ resource_vars = {}
    /\ start_button = "normal"
    /\ messagebox = "none"
    /\ after_pending = FALSE
    /\ dialogs = 0

WorkerInit ==
    /\ wpc = "idle"
    /\ args = NoArgs
    /\ regions = <<>>
    /\ ri = 1
    /\ mi = 1
    /\ events = <<>>
    /\ thread_exit = "none"

---------------------------------------------------------------------------
\* Checkbutton of one resource
ToggleResource(r) ==
    /\ resource_vars' = IF r \in resource_vars THEN resource_vars \ {r}
                        ELSE resource_vars \cup {r}
    /\ UNCHANGED <<profile_var, dry_run_var, start_button, messagebox,
                   after_pending, dialogs, workerVars, otherVars>>

select_all_resources ==
    /\ resource_vars' = ResourceNames
    /\ UNCHANGED <<profile_var, dry_run_var, start_button, messagebox,
                   after_pending, dialogs, workerVars, otherVars>>

deselect_all_resources ==
    /\ resource_vars' = {}
    /\ UNCHANGED <<profile_var, dry_run_var, start_button, messagebox,
                   after_pending, dialogs, workerVars, otherVars>>

\* Checkbutton "Dry Run"
ToggleDryRun ==
    /\ dry_run_var' = ~dry_run_var
    /\ UNCHANGED <<profile_var, resource_vars, start_button, messagebox,
                   after_pending, dialogs, workerVars, otherVars>>

\* Combobox bound to profile_var
SetProfile(p) ==
    /\ profile_var' = p
    /\ UNCHANGED <<dry_run_var, resource_vars, start_button, messagebox,
                   after_pending, dialogs, workerVars, otherVars>>

\* start_cleanup: the command of the Start button; answer is the operator's
\* answer to askyesno
start_cleanup_unconfirmed(answer) ==
    /\ start_button = "normal"
    /\ profile_var # ""
    /\ selected_resources # <<>>
    /\ messagebox' = IF answer THEN "confirm_yes" ELSE "confirm_no"
    /\ start_button' = "disabled"
    /\ args' = [profile |-> profile_var,
                resources |-> selected_resources,
                dry_run |-> dry_run_var]
    /\ wpc' = "session"
    /\ thread_exit' = "none"
    /\ regions' = <<>>
    /\ ri' = 1
    /\ mi' = 1
    /\ events' = <<>>
    /\ dialogs' = 0
    /\ after_pending' = TRUE
    /\ UNCHANGED <<profile_var, dry_run_var, resource_vars, otherVars>>
start_cleanup(answer) ==
    /\ start_button = "normal"
    /\ IF profile_var = ""
       THEN /\ messagebox' = "error_profile"
            /\ UNCHANGED <<start_button, after_pending, dialogs, workerVars>>
       ELSE IF selected_resources = <<>>
       THEN /\ messagebox' = "error_resources"
            /\ UNCHANGED <<start_button, after_pending, dialogs, workerVars>>
       ELSE IF ~answer
       THEN /\ messagebox' = "confirm_no"
            /\ UNCHANGED <<start_button, after_pending, dialogs, workerVars>>
       ELSE /\ messagebox' = "confirm_yes"
            /\ start_button' = "disabled"
            /\ args' = [profile |-> profile_var,
                        resources |-> selected_resources,
                        dry_run |-> dry_run_var]
            /\ wpc' = "session"
            /\ thread_exit' = "none"
            /\ regions' = <<>>
            /\ ri' = 1
            /\ mi' = 1
            /\ events' = <<>>
            /\ dialogs' = 0
            /\ after_pending' = TRUE
    /\ UNCHANGED <<profile_var, dry_run_var, resource_vars, otherVars>>

\* cleanup_thread.is_alive()
is_alive_never == FALSE
is_alive_stale == wpc # "idle"
is_alive == wpc \notin {"idle", "dead"}

\* check_thread_status: the timer callback
check_thread_status ==
    /\ after_pending
    /\ IF is_alive
       THEN UNCHANGED <<start_button, messagebox, after_pending, dialogs>>
       ELSE /\ start_button' = "normal"
            /\ messagebox' = "complete"
            /\ dialogs' = dialogs + 1
            /\ after_pending' = FALSE
    /\ UNCHANGED <<profile_var, dry_run_var, resource_vars, workerVars, otherVars>>

---------------------------------------------------------------------------
\* run_cleanup, "Create session": boto3.Session(profile_name=profile)
CreateSession(ok) ==
    /\ wpc = "session"
    /\ events' = Append(events, Event("session", "-", 0, args.dry_run, ~ok))
    /\ IF ok THEN wpc' = "regions" /\ thread_exit' = thread_exit
             ELSE wpc' = "dead" /\ thread_exit' = "returned"
    /\ UNCHANGED <<args, regions, ri, mi, guiVars, otherVars>>

\* run_cleanup, "Get all AWS regions": describe_regions; rs is the answer,
\* ok = FALSE a failure of the call
GetRegionsFallback(ok, rs) ==
    /\ wpc = "regions"
    /\ events' = Append(events, Event("regions", "-", 0, args.dry_run, ~ok))
    /\ regions' = rs
    /\ wpc' = "iam"
    /\ UNCHANGED <<args, ri, mi, thread_exit, guiVars, otherVars>>
GetRegions(ok, rs) ==
    /\ wpc = "regions"
    /\ events' = Append(events, Event("regions", "-", 0, args.dry_run, ~ok))
    /\ regions' = IF ok THEN rs ELSE <<>>
    /\ wpc' = "iam"
    /\ UNCHANGED <<args, ri, mi, thread_exit, guiVars, otherVars>>

\* where run_cleanup goes on after the IAM cleaner returned or raised
AfterIAMAbort(raised) == IF raised THEN "dead" ELSE "loop"
AfterIAM(raised) == "loop"

\* run_cleanup, "IAM is a global service, handle it separately"
CleanIAM(raised) ==
    /\ wpc = "iam"
    /\ raised => Raised(events) < MaxRaise
    /\ IF "IAM" \in Range(args.resources)
       THEN /\ events' = Append(events,
                           Event("clean", "IAM", 0, args.dry_run, raised))
            /\ wpc' = AfterIAM(raised)
            /\ thread_exit' = IF AfterIAM(raised) = "dead" THEN "uncaught"
                              ELSE thread_exit
       ELSE /\ ~raised
            /\ wpc' = "loop"
            /\ UNCHANGED <<events, thread_exit>>
    /\ ri' = 1
    /\ mi' = 1
    /\ UNCHANGED <<args, regions, guiVars, otherVars>>

\* "Skip IAM for region-based cleaning"
SkipNothing(resource_name) == FALSE
SkipInRegionLoop(resource_name) == resource_name = "IAM"

\* where the regional loop goes on after a cleaner returned or raised:
\* the next module of the same region
AfterCleanAbort(raised) == IF raised THEN "dead" ELSE "loop"
AfterClean(raised) == "loop"

CleanRegionalLive(raised) ==
    /\ wpc = "loop"
    /\ ri <= Len(regions)
    /\ mi <= Len(resource_modules(args.resources))
    /\ raised => Raised(events) < MaxRaise
    /\ LET m == resource_modules(args.resources)[mi] IN
       IF SkipInRegionLoop(m)
       THEN /\ ~raised
            /\ wpc' = "loop"
            /\ UNCHANGED <<events, thread_exit>>
       ELSE /\ events' = Append(events,
                           Event("clean", m, regions[ri], dry_run_var, raised))
            /\ wpc' = AfterClean(raised)
            /\ thread_exit' = IF AfterClean(raised) = "dead" THEN "uncaught"
                              ELSE thread_exit
    /\ mi' = mi + 1
    /\ ri' = ri
    /\ UNCHANGED <<args, regions, guiVars, otherVars>>
\* run_cleanup, one iteration of "for resource_name, module in
\* resource_modules.items()" inside "for region in regions"
CleanRegional(raised) ==
    /\ wpc = "loop"
    /\ ri <= Len(regions)
    /\ mi <= Len(resource_modules(args.resources))
    /\ raised => Raised(events) < MaxRaise
    /\ LET m == resource_modules(args.resources)[mi] IN
       IF SkipInRegionLoop(m)
       THEN /\ ~raised
            /\ wpc' = "loop"
            /\ UNCHANGED <<events, thread_exit>>
       ELSE /\ events' = Append(events,
                           Event("clean", m, regions[ri], args.dry_run, raised))
            /\ wpc' = AfterClean(raised)
            /\ thread_exit' = IF AfterClean(raised) = "dead" THEN "uncaught"
                              ELSE thread_exit
    /\ mi' = mi + 1
    /\ ri' = ri
    /\ UNCHANGED <<args, regions, guiVars, otherVars>>

\* run_cleanup, the inner loop of a region is exhausted: the next region
NextRegion ==
    /\ wpc = "loop"
    /\ ri <= Len(regions)
    /\ mi > Len(resource_modules(args.resources))
    /\ ri' = ri + 1
    /\ mi' = 1
    /\ UNCHANGED <<wpc, args, regions, events, thread_exit, guiVars, otherVars>>

\* run_cleanup, "Cleanup process completed"
Finish ==
    /\ wpc = "loop"
    /\ ri > Len(regions)
    /\ wpc' = "dead"
    /\ thread_exit' = "returned"
    /\ UNCHANGED <<args, regions, ri, mi, events, guiVars, otherVars>>

---------------------------------------------------------------------------
(***************************************************************************)
(* cleaner/*.py: one invocation of a cleaner's clean().                    *)
(*                                                                         *)
(* A step of clean() is a listing call followed by a loop over what was    *)
(* listed.  The provider chooses the listing (the descriptors below, with  *)
(* the fields the code reads) and the outcome of every call: o[n] is       *)
(* whether the n-th call made for the resource succeeds, a failure being a *)
(* ClientError.  Every mutating call is recorded, with the kind and id of  *)
(* the resource it targets and the status the listing gave for it.         *)
(***************************************************************************)
Outcomes == [1..4 -> BOOLEAN]

Call(op, kind, id, state) ==
    [op |-> op, kind |-> kind, id |-> id, sub |-> 0, state |-> state, vpc |-> 0]

\* the call for the i-th dependent of the resource (an attachment, a version)
Sub(call, i) == [call EXCEPT !.sub = i]

\* a call made inside the loop over the resources of VPC v
InVpc(call, v) == [call EXCEPT !.vpc = v]

\* the number of calls a loop of n calls makes when the loop is inside one
\* try block: the first ClientError ends the loop
Attempts(n, o) ==
    IF \A i \in 1..n : o[i] THEN n
    ELSE CHOOSE i \in 1..n : ~o[i] /\ \A j \in 1..(i - 1) : o[j]

\* ---- cleaner/ec2.py
\* "1. Terminate EC2 instances"
ec2_instance(r, dry, o) ==
    IF r.State \in {"terminated", "shutting-down"} THEN <<>>
    ELSE IF dry THEN <<>>
    ELSE <<Call("terminate_instances", "instance", r.id, r.State)>>

\* "2. Delete security groups": non_default_sgs and its loop
ec2_security_group(r, dry, o) ==
    IF r.GroupName = "default" THEN <<>>
    ELSE IF dry THEN <<>>
    ELSE <<Call("delete_security_group", "security_group", r.id, "-")>>

\* "3. Release Elastic IPs"
ec2_address(r, dry, o) ==
    IF ~r.AllocationId THEN <<>>
    ELSE IF dry THEN <<>>
    ELSE <<Call("release_address", "address", r.id, "-")>>

\* "4. Delete EBS volumes"
ec2_volume_no_gate(r, dry, o) ==
    IF r.State = "in-use" THEN <<>>
    ELSE <<Call("delete_volume", "volume", r.id, r.State)>>
ec2_volume(r, dry, o) ==
    IF r.State = "in-use" THEN <<>>
    ELSE IF dry THEN <<>>
    ELSE <<Call("delete_volume", "volume", r.id, r.State)>>

\* "5. Delete snapshots owned by this account"
ec2_snapshot(r, dry, o) ==
    IF dry THEN <<>>
    ELSE <<Call("delete_snapshot", "snapshot", r.id, "-")>>

\* "6. Deregister AMIs and delete associated snapshots"; SnapshotId is the
\* snapshot of the image's block device mapping, 0 when it has none
ec2_image(r, dry, o) ==
    IF dry THEN <<>>
    ELSE <<Call("deregister_image", "image", r.id, "-")>> \o
         (IF o[1] /\ r.SnapshotId # 0
          THEN <<Call("delete_snapshot", "snapshot", r.SnapshotId, "-")>>
          ELSE <<>>)

\* ---- cleaner/cloudformation.py
FailedStatuses ==
    {"CREATE_FAILED", "ROLLBACK_FAILED", "UPDATE_ROLLBACK_FAILED", "DELETE_FAILED"}

\* the body of "for stack in page['StackSummaries']"; for a stack in a failed
\* state o[1] is the outcome of list_stack_resources, o[2] and o[3] those of
\* the delete_stack calls
cfn_stack(r, dry, o) ==
    IF r.StackStatus \in {"DELETE_IN_PROGRESS"} THEN <<>>
    ELSE IF dry THEN <<>>
    ELSE IF r.Nested THEN <<>>
    ELSE IF r.StackStatus \in FailedStatuses
    THEN IF o[1]
         THEN <<Call("delete_stack", "stack", r.id, r.StackStatus)>> \o
              (IF o[2] THEN <<>>
               ELSE <<Call("delete_stack", "stack", r.id, r.StackStatus)>>)
         ELSE <<Call("delete_stack", "stack", r.id, r.StackStatus)>>
    ELSE <<Call("delete_stack", "stack", r.id, r.StackStatus)>>

\* ---- cleaner/rds.py
\* "1. Delete DB instances"
rds_db_instance(r, dry, o) ==
    IF dry THEN <<>>
    ELSE IF r.DBClusterIdentifier THEN <<>>
    ELSE IF r.DeletionProtection
    THEN <<Call("modify_db_instance", "db_instance", r.id, r.Status)>> \o
         (IF o[1]
          THEN <<Call("delete_db_instance", "db_instance", r.id, r.Status)>>
          ELSE <<>>)
    ELSE <<Call("delete_db_instance", "db_instance", r.id, r.Status)>>

\* "2. Delete Aurora DB clusters"
rds_db_cluster(r, dry, o) ==
    IF dry THEN <<>>
    ELSE IF r.DeletionProtection
    THEN <<Call("modify_db_cluster", "db_cluster", r.id, r.Status)>> \o
         (IF o[1]
          THEN <<Call("delete_db_cluster", "db_cluster", r.id, r.Status)>>
          ELSE <<>>)
    ELSE <<Call("delete_db_cluster", "db_cluster", r.id, r.Status)>>

\* steps 3, 4, 7 and 9: a loop that deletes every listed resource
rds_delete(op, kind, r, dry, o) ==
    IF dry THEN <<>> ELSE <<Call(op, kind, r.id, "-")>>

\* steps 5, 6 and 8: the groups whose name starts with "default" are skipped
rds_custom_group(op, kind, r, dry, o) ==
    IF r.Default THEN <<>>
    ELSE IF dry THEN <<>>
    ELSE <<Call(op, kind, r.id, "-")>>


\* ---- cleaner/vpc.py
\* a call of the loops over the resources of one VPC (steps 8 to 13 and 15)
VpcCall(op, kind, id, state, v) == InVpc(Call(op, kind, id, state), v)

\* steps 1, 4, 6 and 7: resources in state deleting or deleted are skipped
vpc_skip_deleting(op, kind, r, dry, o) ==
    IF r.State \in {"deleting", "deleted"} THEN <<>>
    ELSE IF dry THEN <<>>
    ELSE <<Call(op, kind, r.id, r.State)>>

\* "2. Delete Network Interfaces (ENIs)"
vpc_network_interface(r, dry, o) ==
    IF r.Status \in {"in-use", "detaching", "deleting"} THEN <<>>
    ELSE IF dry THEN <<>>
    ELSE <<Call("delete_network_interface", "network_interface", r.id, r.Status)>>

\* "3. Detach and Delete Internet Gateways"; Attachments is the number of
\* attachments that name a VPC
vpc_internet_gateway_stop_on_failure(r, dry, o) ==
    IF dry THEN <<>>
    ELSE [i \in 1..Attempts(r.Attachments, o) |->
             Sub(Call("detach_internet_gateway", "internet_gateway", r.id, "-"), i)]
         \o (IF \A i \in 1..r.Attachments : o[i]
             THEN <<Call("delete_internet_gateway", "internet_gateway", r.id, "-")>>
             ELSE <<>>)
vpc_internet_gateway(r, dry, o) ==
    IF dry THEN <<>>
    ELSE [i \in 1..r.Attachments |->
             Sub(Call("detach_internet_gateway", "internet_gateway", r.id, "-"), i)]
         \o <<Call("delete_internet_gateway", "internet_gateway", r.id, "-")>>

\* "5. Delete VPN Gateways"; Attachment is the state of its VPC attachment,
\* "none" without one
vpc_vpn_gateway(r, dry, o) ==
    IF r.State \in {"deleting", "deleted"} THEN <<>>
    ELSE IF dry THEN <<>>
    ELSE IF r.Attachment \notin {"none", "detached", "detaching"}
    THEN <<Call("detach_vpn_gateway", "vpn_gateway", r.id, r.State),
           Call("delete_vpn_gateway", "vpn_gateway", r.id, r.State)>>
    ELSE <<Call("delete_vpn_gateway", "vpn_gateway", r.id, r.State)>>

\* "8 & 9. Delete Route Tables (disassociate first)"; Main: one association
\* is the main one, Subnets: the number of associations with a subnet
vpc_route_table_delete_first(r, dry, o, v) ==
    IF r.Main THEN <<>>
    ELSE IF dry THEN <<>>
    ELSE <<VpcCall("delete_route_table", "route_table", r.id, "-", v)>>
         \o [i \in 1..r.Subnets |->
                Sub(VpcCall("disassociate_route_table", "route_table", r.id, "-", v), i)]
vpc_route_table(r, dry, o, v) ==
    IF r.Main THEN <<>>
    ELSE IF dry THEN <<>>
    ELSE [i \in 1..r.Subnets |->
             Sub(VpcCall("disassociate_route_table", "route_table", r.id, "-", v), i)]
         \o <<VpcCall("delete_route_table", "route_table", r.id, "-", v)>>

\* "10. Delete Subnets"
vpc_subnet(r, dry, o, v) ==
    IF dry THEN <<>>
    ELSE <<VpcCall("delete_subnet", "subnet", r.id, "-", v)>>

\* "11. Delete Security Groups (except default)"
vpc_security_group(r, dry, o, v) ==
    IF r.GroupName = "default" THEN <<>>
    ELSE IF dry THEN <<>>
    ELSE <<VpcCall("delete_security_group", "security_group", r.id, "-", v)>>

\* "12. Delete Network ACLs (except default)"
vpc_network_acl_no_skip(r, dry, o, v) ==
    IF dry THEN <<>>
    ELSE <<VpcCall("delete_network_acl", "network_acl", r.id, "-", v)>>
vpc_network_acl(r, dry, o, v) ==
    IF r.IsDefault THEN <<>>
    ELSE IF dry THEN <<>>
    ELSE <<VpcCall("delete_network_acl", "network_acl", r.id, "-", v)>>

\* "13. Delete VPC Endpoints"
vpc_endpoint(r, dry, o, v) ==
    IF dry THEN <<>>
    ELSE <<VpcCall("delete_vpc_endpoints", "vpc_endpoint", r.id, r.State, v)>>

\* "14. Delete VPC Peering Connections"
vpc_peering_connection(r, dry, o) ==
    IF r.Status \in {"deleted", "rejected", "failed", "expired"} THEN <<>>
    ELSE IF dry THEN <<>>
    ELSE <<Call("delete_vpc_peering_connection", "vpc_peering_connection", r.id,
                r.Status)>>

\* "15. Delete VPCs"
vpc_delete_vpc(r, dry, o) ==
    IF dry THEN <<>>
    ELSE IF r.IsDefault THEN <<>>
    ELSE <<VpcCall("delete_vpc", "vpc", r.id, "-", r.id)>>

\* ---- cleaner/lambda_module.py
\* the body of "for function in page['Functions']"; Mappings is the number
\* of event source mappings listed for the function
lambda_function(r, dry, o) ==
    IF dry THEN <<>>
    ELSE [i \in 1..Attempts(r.Mappings, o) |->
             Sub(Call("delete_event_source_mapping", "event_source_mapping", r.id,
                      "-"), i)]
         \o <<Call("delete_function", "function", r.id, "-")>>

\* the body of "for layer in page.get('Layers', [])"; Versions is the number
\* of versions listed for the layer
lambda_layer(r, dry, o) ==
    IF dry THEN <<>>
    ELSE [i \in 1..Attempts(r.Versions, o) |->
             Sub(Call("delete_layer_version", "layer_version", r.id, "-"), i)]

\* ---- cleaner/s3.py
\* the body of "for bucket_name in region_buckets"; o[1] is the outcome of
\* deleting the objects, kept in the last field of that call's record; the
\* errors of delete_bucket_lifecycle and delete_bucket_policy are handled
\* where they are raised
s3_bucket(r, dry, o) ==
    IF dry THEN <<>>
    ELSE <<Call(IF r.Versioned THEN "delete_object_versions" ELSE "delete_objects",
                "bucket_objects", r.id, IF o[1] THEN "returned" ELSE "raised")>> \o
         (IF ~o[1] THEN <<>>
          ELSE <<Call("delete_bucket_lifecycle", "bucket_lifecycle", r.id, "-"),
                 Call("delete_bucket_policy", "bucket_policy", r.id, "-"),
                 Call("delete_bucket", "bucket", r.id, "-")>>)

\* ---- cleaner/iam.py
\* the call that removes what the entity still has; Part names the one kind
\* of dependent the listing calls return for it ("none": nothing)
IamPartOp(entity, part) ==
    IF part = "access_key" THEN "delete_access_key"
    ELSE IF part = "inline_policy" THEN "delete_" \o entity \o "_policy"
    ELSE IF part = "managed_policy" THEN "detach_" \o entity \o "_policy"
    ELSE IF part = "group" THEN "remove_user_from_group"
    ELSE IF part = "mfa_device" THEN "deactivate_mfa_device"
    ELSE "delete_login_profile"

\* the body of "for user in page['Users']"
iam_user_abort_on_failure(r, dry, o) ==
    IF dry THEN <<>>
    ELSE IF r.Part = "none" THEN <<Call("delete_user", "user", r.id, "-")>>
    ELSE <<Call(IamPartOp("user", r.Part), "user_" \o r.Part, r.id, "-")>>
         \o (IF o[1] THEN <<Call("delete_user", "user", r.id, "-")>> ELSE <<>>)
iam_user(r, dry, o) ==
    IF dry THEN <<>>
    ELSE (IF r.Part = "none" THEN <<>>
          ELSE <<Call(IamPartOp("user", r.Part), "user_" \o r.Part, r.id, "-")>>)
         \o <<Call("delete_user", "user", r.id, "-")>>

\* the body of "for group in page['Groups']"
iam_group(r, dry, o) ==
    IF dry THEN <<>>
    ELSE (IF r.Part = "none" THEN <<>>
          ELSE <<Call(IamPartOp("group", r.Part), "group_" \o r.Part, r.id, "-")>>)
         \o <<Call("delete_group", "group", r.id, "-")>>

\* the body of "for role in page['Roles']"
iam_role(r, dry, o) ==
    IF r.Path \in {"/aws-service-role/", "/service-role/"} THEN <<>>
    ELSE IF dry THEN <<>>
    ELSE (IF r.Part = "none" THEN <<>>
          ELSE IF r.Part = "instance_profile"
          THEN <<Call("remove_role_from_instance_profile", "role_instance_profile",
                      r.id, r.Path)>>
               \o (IF o[1]
                   THEN <<Call("delete_instance_profile", "instance_profile", r.id,
                               "-")>>
                   ELSE <<>>)
          ELSE <<Call(IamPartOp("role", r.Part), "role_" \o r.Part, r.id, r.Path)>>)
         \o <<Call("delete_role", "role", r.id, r.Path)>>

\* list_entities_for_policy returns names only: PolicyUsers, PolicyGroups,
\* PolicyRoles; "service_role" stands for an entry of PolicyRoles that names
\* a role whose path is '/service-role/', a path the policy step never reads
AttachedEntity(attached) ==
    IF attached = "service_role" THEN "role" ELSE attached

AttachedPath(attached) ==
    IF attached = "service_role" THEN "/service-role/"
    ELSE IF attached = "role" THEN "/"
    ELSE "-"

\* the body of "for policy in page['Policies']"; Attached is the kind of
\* entity list_entities_for_policy returns ("none": no entity), Versions the
\* number of non-default versions; o[1] is the outcome of the detach call,
\* the next Versions ones those of delete_policy_version
iam_policy(r, dry, o) ==
    LET vo == [i \in 1..r.Versions |-> o[i + 1]] IN
    IF dry THEN <<>>
    ELSE (IF r.Attached = "none" THEN <<>>
          ELSE <<Call("detach_" \o AttachedEntity(r.Attached) \o "_policy",
                      "policy_attachment", r.id, AttachedPath(r.Attached))>>)
         \o [i \in 1..Attempts(r.Versions, vo) |->
                Sub(Call("delete_policy_version", "policy_version", r.id, "-"), i)]
         \o <<Call("delete_policy", "policy", r.id, "-")>>


\* ---- the steps of each clean(), in the order of its code, what the provider
\* can answer for one resource listed in a step (the fields the code reads;
\* id is filled in when the listing is returned), and the loop of each step
ec2_steps ==
    <<"instances", "security_groups", "addresses", "volumes", "snapshots", "images">>

ec2_shapes(step) ==
    CASE step = "instances" ->
           [id : {0}, State : {"running", "shutting-down", "terminated"}]
      [] step = "security_groups" -> [id : {0}, GroupName : {"default", "custom"}]
      [] step = "addresses" -> [id : {0}, AllocationId : BOOLEAN]
      [] step = "volumes" -> [id : {0}, State : {"available", "in-use", "deleting"}]
      [] step = "snapshots" -> [id : {0}]
      [] step = "images" -> [id : {0}, SnapshotId : 0..MaxRes]

ec2_loop(step, r, dry, o) ==
    CASE step = "instances" -> ec2_instance(r, dry, o)
      [] step = "security_groups" -> ec2_security_group(r, dry, o)
      [] step = "addresses" -> ec2_address(r, dry, o)
      [] step = "volumes" -> ec2_volume(r, dry, o)
      [] step = "snapshots" -> ec2_snapshot(r, dry, o)
      [] step = "images" -> ec2_image(r, dry, o)

s3_steps == <<"buckets">>

\* Location is what get_bucket_location answers for the bucket: "null" for
\* a LocationConstraint of None, "error" for a ClientError
s3_shapes(step) ==
    [id : {0}, Location : {"null", "error"} \cup RegionNames, Versioned : BOOLEAN]

\* bucket_region['LocationConstraint'] or 'us-east-1'
bucket_region(location) ==
    IF location = "null" THEN DefaultRegion ELSE location

in_region_null_anywhere(bucket, region) ==
    \/ bucket.Location = "null"
    \/ bucket.Location # "error" /\ bucket.Location = region
\* the test that puts a listed bucket into region_buckets
in_region(bucket, region) ==
    bucket.Location # "error" /\ bucket_region(bucket.Location) = region

\* region_buckets: the listed buckets whose location is the region
RECURSIVE region_buckets(_, _)
region_buckets(buckets, region) ==
    IF buckets = <<>> THEN <<>>
    ELSE IF in_region(Head(buckets), region)
    THEN <<Head(buckets)>> \o region_buckets(Tail(buckets), region)
    ELSE region_buckets(Tail(buckets), region)

lambda_steps == <<"functions", "layers">>

lambda_shapes(step) ==
    CASE step = "functions" -> [id : {0}, Mappings : 0..MaxParts]
      [] step = "layers" -> [id : {0}, Versions : 0..MaxParts]

lambda_loop(step, r, dry, o) ==
    CASE step = "functions" -> lambda_function(r, dry, o)
      [] step = "layers" -> lambda_layer(r, dry, o)

cfn_steps == <<"stacks">>

cfn_shapes(step) ==
    [id : {0}, Nested : BOOLEAN,
     StackStatus : {"CREATE_COMPLETE", "DELETE_IN_PROGRESS", "ROLLBACK_FAILED"}]

rds_steps ==
    <<"db_instances", "db_clusters", "db_snapshots", "db_cluster_snapshots",
      "db_parameter_groups", "db_cluster_parameter_groups", "db_subnet_groups",
      "option_groups", "event_subscriptions">>

rds_shapes(step) ==
    CASE step = "db_instances" ->
           [id : {0}, Status : {"available", "deleting"},
            DBClusterIdentifier : BOOLEAN, DeletionProtection : BOOLEAN]
      [] step = "db_clusters" ->
           [id : {0}, Status : {"available", "deleting"}, DeletionProtection : BOOLEAN]
      [] step \in {"db_parameter_groups", "db_cluster_parameter_groups",
                   "option_groups"} -> [id : {0}, Default : BOOLEAN]
      [] OTHER -> [id : {0}]

rds_loop(step, r, dry, o) ==
    CASE step = "db_instances" -> rds_db_instance(r, dry, o)
      [] step = "db_clusters" -> rds_db_cluster(r, dry, o)
      [] step = "db_snapshots" ->
           rds_delete("delete_db_snapshot", "db_snapshot", r, dry, o)
      [] step = "db_cluster_snapshots" ->
           rds_delete("delete_db_cluster_snapshot", "db_cluster_snapshot", r, dry, o)
      [] step = "db_parameter_groups" ->
           rds_custom_group("delete_db_parameter_group", "db_parameter_group", r, dry, o)
      [] step = "db_cluster_parameter_groups" ->
           rds_custom_group("delete_db_cluster_parameter_group",
                            "db_cluster_parameter_group", r, dry, o)
      [] step = "db_subnet_groups" ->
           rds_delete("delete_db_subnet_group", "db_subnet_group", r, dry, o)
      [] step = "option_groups" ->
           rds_custom_group("delete_option_group", "option_group", r, dry, o)
      [] step = "event_subscriptions" ->
           rds_delete("delete_event_subscription", "event_subscription", r, dry, o)

vpc_steps ==
    <<"nat_gateways", "network_interfaces", "internet_gateways", "vpn_connections",
      "vpn_gateways", "tgw_attachments", "transit_gateways", "vpcs", "route_tables",
      "subnets", "vpc_security_groups", "network_acls", "vpc_endpoints",
      "peering_connections", "delete_vpcs">>

vpc_shapes(step) ==
    CASE step \in {"nat_gateways", "vpn_connections", "tgw_attachments",
                   "transit_gateways"} ->
           [id : {0}, State : {"available", "deleting", "deleted"}]
      [] step = "network_interfaces" ->
           [id : {0}, Status : {"available", "in-use", "deleting"}]
      [] step = "internet_gateways" -> [id : {0}, Attachments : 0..MaxParts]
      [] step = "vpn_gateways" ->
           [id : {0}, State : {"available", "deleting"},
            Attachment : {"none", "attached", "detached"}]
      [] step = "vpcs" -> [id : {0}, IsDefault : BOOLEAN]
      [] step = "route_tables" -> [id : {0}, Main : BOOLEAN, Subnets : 0..MaxParts]
      [] step = "subnets" -> [id : {0}]
      [] step = "vpc_security_groups" -> [id : {0}, GroupName : {"default", "custom"}]
      [] step = "network_acls" -> [id : {0}, IsDefault : BOOLEAN]
      [] step = "vpc_endpoints" -> [id : {0}, State : {"available", "deleting"}]
      [] step = "peering_connections" ->
           [id : {0}, Status : {"active", "deleting", "deleted"}]

\* v is the VPC whose resources the loop goes over
vpc_loop(step, r, dry, o, v) ==
    CASE step = "nat_gateways" ->
           vpc_skip_deleting("delete_nat_gateway", "nat_gateway", r, dry, o)
      [] step = "network_interfaces" -> vpc_network_interface(r, dry, o)
      [] step = "internet_gateways" -> vpc_internet_gateway(r, dry, o)
      [] step = "vpn_connections" ->
           vpc_skip_deleting("delete_vpn_connection", "vpn_connection", r, dry, o)
      [] step = "vpn_gateways" -> vpc_vpn_gateway(r, dry, o)
      [] step = "tgw_attachments" ->
           vpc_skip_deleting("delete_transit_gateway_vpc_attachment",
                             "tgw_attachment", r, dry, o)
      [] step = "transit_gateways" ->
           vpc_skip_deleting("delete_transit_gateway", "transit_gateway", r, dry, o)
      [] step = "route_tables" -> vpc_route_table(r, dry, o, v)
      [] step = "subnets" -> vpc_subnet(r, dry, o, v)
      [] step = "vpc_security_groups" -> vpc_security_group(r, dry, o, v)
      [] step = "network_acls" -> vpc_network_acl(r, dry, o, v)
      [] step = "vpc_endpoints" -> vpc_endpoint(r, dry, o, v)
      [] step = "peering_connections" -> vpc_peering_connection(r, dry, o)
      [] step = "delete_vpcs" -> vpc_delete_vpc(r, dry, o)

iam_steps == <<"users", "groups", "roles", "policies">>

iam_shapes(step) ==
    CASE step = "users" ->
           [id : {0},
            Part : {"none", "access_key", "inline_policy", "managed_policy", "group",
                    "mfa_device", "login_profile"}]
      [] step = "groups" ->
           [id : {0}, Part : {"none", "inline_policy", "managed_policy"}]
      [] step = "roles" ->
           [id : {0}, Path : {"/", "/aws-service-role/"},
            Part : {"none", "inline_policy", "managed_policy", "instance_profile"}]
      [] step = "policies" ->
           [id : {0}, Attached : {"none", "user", "group", "role", "service_role"},
            Versions : 0..MaxParts]

iam_loop(step, r, dry, o) ==
    CASE step = "users" -> iam_user(r, dry, o)
      [] step = "groups" -> iam_group(r, dry, o)
      [] step = "roles" -> iam_role(r, dry, o)
      [] step = "policies" -> iam_policy(r, dry, o)

\* ---- resource_modules[resource_name].clean(...): the cleaner that runs
Steps(module) ==
    CASE module = "EC2" -> ec2_steps
      [] module = "S3" -> s3_steps
      [] module = "Lambda" -> lambda_steps
      [] module = "CloudFormation" -> cfn_steps
      [] module = "RDS" -> rds_steps
      [] module = "VPC" -> vpc_steps
      [] module = "IAM" -> iam_steps

Shapes(module, step) ==
    CASE module = "EC2" -> ec2_shapes(step)
      [] module = "S3" -> s3_shapes(step)
      [] module = "Lambda" -> lambda_shapes(step)
      [] module = "CloudFormation" -> cfn_shapes(step)
      [] module = "RDS" -> rds_shapes(step)
      [] module = "VPC" -> vpc_shapes(step)
      [] module = "IAM" -> iam_shapes(step)

LoopBody(module, step, r, dry, o, v) ==
    CASE module = "EC2" -> ec2_loop(step, r, dry, o)
      [] module = "S3" -> s3_bucket(r, dry, o)
      [] module = "Lambda" -> lambda_loop(step, r, dry, o)
      [] module = "CloudFormation" -> cfn_stack(r, dry, o)
      [] module = "RDS" -> rds_loop(step, r, dry, o)
      [] module = "VPC" -> vpc_loop(step, r, dry, o, v)
      [] module = "IAM" -> iam_loop(step, r, dry, o)

StepIndex(module, step) ==
    CHOOSE i \in 1..Len(Steps(module)) : Steps(module)[i] = step

\* the step the code reaches after step, "end" after the last one; in vpc.py
\* the steps from route tables to endpoints are the body of "for vpc in
\* vpcs['Vpcs']", so after the endpoints of one VPC come the route tables of
\* the next
FollowingFirstVpcOnly(module, step, v, nvpcs) ==
    IF StepIndex(module, step) = Len(Steps(module)) THEN "end"
    ELSE Steps(module)[StepIndex(module, step) + 1]
Following(module, step, v, nvpcs) ==
    IF step = "vpc_endpoints" /\ v < nvpcs THEN "route_tables"
    ELSE IF StepIndex(module, step) = Len(Steps(module)) THEN "end"
    ELSE Steps(module)[StepIndex(module, step) + 1]

\* where clean() continues when the listing call of step raises ClientError:
\* most steps have their own try block; in s3.py and lambda_module.py one
\* try block holds the whole body, and in vpc.py the one of describe_vpcs
\* holds everything after it
AfterListError(module, step, v, nvpcs) ==
    IF module \in {"S3", "Lambda"} \/ step = "vpcs" THEN "end"
    ELSE Following(module, step, v, nvpcs)

\* the listings of at most n resources the provider can return
RECURSIVE Listings(_, _)
Listings(shapes, n) ==
    IF n = 0 THEN {<<>>}
    ELSE Listings(shapes, n - 1) \cup
         {Append(l, s) : l \in {x \in Listings(shapes, n - 1) : Len(x) = n - 1},
                         s \in shapes}

\* the listing with the identifiers first + 1, first + 2, ...
WithIds(listing, first) ==
    [i \in 1..Len(listing) |-> [listing[i] EXCEPT !.id = first + i]]

CleanIdle ==
    /\ cleaner = "" /\ dry_run = TRUE /\ cpc = "end" /\ phase = "list"
    /\ todo = <<>> /\ calls = <<>> /\ budget = 0
    /\ vpcs = <<>> /\ vi = 0 /\ cexit = "idle"
    /\ region_name = DefaultRegion

\* clean(region, session, dry_run) is entered; s3.py alone compares region
\* with anything, the other cleaners hand it to session.client
CleanInit ==
    /\ cleaner \in Range(ModuleOrder)
    /\ dry_run \in BOOLEAN
    /\ cpc = Steps(cleaner)[1] /\ phase = "list"
    /\ todo = <<>> /\ calls = <<>> /\ budget = MaxRes
    /\ vpcs = <<>> /\ vi = 0 /\ cexit = "running"
    /\ region_name \in (IF cleaner = "S3" THEN RegionNames ELSE {DefaultRegion})

\* control moves to step: its listing call comes next, except for "15. Delete
\* VPCs", which loops over the VPCs listed before; after the last step the
\* "Completed ..." line is logged and clean() returns
Continue(step) ==
    /\ cpc' = step
    /\ phase' = IF step = "delete_vpcs" THEN "loop" ELSE "list"
    /\ todo' = IF step = "delete_vpcs" THEN vpcs ELSE <<>>
    /\ vi' = IF step = "route_tables" THEN vi + 1
             ELSE IF step \in {"subnets", "vpc_security_groups", "network_acls",
                               "vpc_endpoints"} THEN vi
             ELSE 0
    /\ cexit' = IF step = "end" THEN "completed" ELSE cexit

\* the listing call of the step raises ClientError
ListFails ==
    /\ cexit = "running" /\ phase = "list"
    /\ Continue(AfterListError(cleaner, cpc, vi, Len(vpcs)))
    /\ UNCHANGED <<cleaner, dry_run, calls, budget, vpcs, region_name,
                   guiVars, workerVars, filterVars, extraVars>>

\* the listing call of the step returns
ListResources ==
    /\ cexit = "running" /\ phase = "list" /\ cpc \notin {"vpcs", "buckets"}
    /\ \E listing \in Listings(Shapes(cleaner, cpc), budget) :
          /\ todo' = WithIds(listing, MaxRes - budget)
          /\ budget' = budget - Len(listing)
    /\ phase' = "loop"
    /\ UNCHANGED <<cleaner, dry_run, cpc, calls, vpcs, vi, cexit, region_name,
                   guiVars, workerVars, filterVars, extraVars>>

\* s3.py: list_buckets returns; "if not region_buckets: ... return"
ListBuckets ==
    /\ cexit = "running" /\ phase = "list" /\ cpc = "buckets"
    /\ \E listing \in Listings(Shapes(cleaner, cpc), budget) :
          /\ budget' = budget - Len(listing)
          /\ IF region_buckets(listing, region_name) = <<>>
             THEN /\ cexit' = "returned"
                  /\ UNCHANGED <<cpc, phase, todo>>
             ELSE /\ todo' = region_buckets(WithIds(listing, MaxRes - budget), region_name)
                  /\ phase' = "loop"
                  /\ UNCHANGED <<cpc, cexit>>
    /\ UNCHANGED <<cleaner, dry_run, calls, vpcs, vi, region_name,
                   guiVars, workerVars, filterVars, extraVars>>

\* vpc.py: describe_vpcs returns; "if not vpcs['Vpcs']: ... return"
ListVpcs ==
    /\ cexit = "running" /\ phase = "list" /\ cpc = "vpcs"
    /\ \E listing \in Listings(Shapes(cleaner, cpc), MaxVpcs) :
          /\ vpcs' = WithIds(listing, 0)
          /\ IF listing = <<>>
             THEN /\ cexit' = "returned"
                  /\ UNCHANGED <<cpc, phase, todo, vi>>
             ELSE Continue("route_tables")
    /\ UNCHANGED <<cleaner, dry_run, calls, budget, region_name,
                   guiVars, workerVars, filterVars, extraVars>>

\* one iteration of the loop of the step
LoopIteration ==
    /\ cexit = "running" /\ phase = "loop" /\ todo # <<>>
    /\ \E o \in Outcomes :
          calls' = calls \o LoopBody(cleaner, cpc, Head(todo), dry_run, o,
                                     IF vi = 0 THEN 0 ELSE vpcs[vi].id)
    /\ todo' = Tail(todo)
    /\ UNCHANGED <<cleaner, dry_run, cpc, phase, budget, vpcs, vi, cexit,
                   region_name, guiVars, workerVars, filterVars, extraVars>>

\* the loop of the step is over
LoopEnds ==
    /\ cexit = "running" /\ phase = "loop" /\ todo = <<>>
    /\ Continue(Following(cleaner, cpc, vi, Len(vpcs)))
    /\ UNCHANGED <<cleaner, dry_run, calls, budget, vpcs, region_name,
                   guiVars, workerVars, filterVars, extraVars>>


---------------------------------------------------------------------------
(***************************************************************************)
(* update_logging.py: filter_log_file.                                     *)
(*                                                                         *)
(* A line is a sequence of text fragments; the fragments are chosen so     *)
(* that no marker the filter looks for straddles two of them except        *)
(* " - INFO - Completed", which is INFO followed by COMPLETED.  A text is  *)
(* its lines (what splitlines returns) and whether it ends with a newline. *)
(***************************************************************************)
INFO == " - INFO - "
WARNING == " - WARNING -"
SPACE == " "
COMPLETED == "Completed"
SUCCESSFULLY == "Successfully"
PLAIN == "x"
\* the fragments of the lines of an input file
Alphabet == {INFO, WARNING, COMPLETED, SUCCESSFULLY, PLAIN}

Text(lines, nl) == [lines |-> lines, nl |-> nl]
EmptyText == Text(<<>>, FALSE)

RECURSIVE LineSeqs(_, _)
\* the sequences of at most k lines holding at most t fragments in all
LineSeqs(k, t) ==
    IF k = 0 THEN {<<>>}
    ELSE {<<>>} \cup
         UNION {{<<l>> \o rest : l \in [1..n -> Alphabet], rest \in LineSeqs(k - 1, t - n)}
                : n \in 0..t}

\* the texts a log file may hold: a text without final newline does not end
\* with an empty line
Texts ==
    {Text(ls, nl) : ls \in LineSeqs(MaxLines, MaxTokens), nl \in BOOLEAN} \
    {c \in {Text(ls, nl) : ls \in LineSeqs(MaxLines, MaxTokens), nl \in BOOLEAN} :
        \/ c.nl /\ c.lines = <<>>
        \/ ~c.nl /\ c.lines # <<>> /\ c.lines[Len(c.lines)] = <<>>}

\* str.splitlines()
splitlines(c) == c.lines
\* "\n".join(lines)
join(lines) == Text(lines, FALSE)

\* "marker in line" for the one-fragment markers
Contains(line, marker) == \E i \in DOMAIN line : line[i] = marker
\* " - INFO - Completed" in line
ContainsInfoCompleted(line) ==
    \E i \in 1..(Len(line) - 1) : line[i] = INFO /\ line[i + 1] = COMPLETED

RECURSIVE replace(_)
\* line.replace(" - INFO - ", " - WARNING - ")
replace(line) ==
    IF line = <<>> THEN <<>>
    ELSE IF Head(line) = INFO THEN <<WARNING, SPACE>> \o replace(Tail(line))
         ELSE <<Head(line)>> \o replace(Tail(line))

\* line.replace(" - INFO - ", " - WARNING - ", 1)
replace_first(line) ==
    IF ~Contains(line, INFO) THEN line
    ELSE LET i == CHOOSE k \in DOMAIN line :
                     line[k] = INFO /\ \A j \in 1..(k - 1) : line[j] # INFO
         IN SubSeq(line, 1, i - 1) \o <<WARNING, SPACE>>
            \o SubSeq(line, i + 1, Len(line))

\* the body of "for line in original_lines": what the line adds to
\* filtered_lines
FilterLineFirst(line) ==
    IF ContainsInfoCompleted(line) THEN <<replace_first(line)>>
    ELSE IF Contains(line, WARNING) THEN <<line>>
    ELSE IF Contains(line, SUCCESSFULLY) THEN <<line>>
    ELSE <<>>
FilterLine(line) ==
    IF ContainsInfoCompleted(line) THEN <<replace(line)>>
    ELSE IF Contains(line, WARNING) THEN <<line>>
    ELSE IF Contains(line, SUCCESSFULLY) THEN <<line>>
    ELSE <<>>

\* where filter_log_file goes on after the backup was written or failed
AfterBackupIgnoreError(outcome) == "filter"
AfterBackup(outcome) == IF outcome = "ok" THEN "filter" ELSE "done"

FilterIdle ==
    /\ backups = {}
    /\ now = 0
    /\ fpc = "idle"
    /\ content = EmptyText
    /\ filtered_lines = <<>>
    /\ li = 1
    /\ backup_path = 0
    /\ fresult = "none"
    /\ filter_runs = 0

\* main: filter_log_file(log_file) is called
FilterStart ==
    /\ fpc \in {"idle", "done"}
    /\ filter_runs < MaxFilterRuns
    /\ filter_runs' = filter_runs + 1
    /\ fpc' = "read"
    /\ content' = EmptyText
    /\ filtered_lines' = <<>>
    /\ li' = 1
    /\ backup_path' = 0
    /\ fresult' = "none"
    /\ UNCHANGED <<file, backups, now, guiVars, workerVars, cleanVars, extraVars>>

\* with open(file_path, 'r') ...: content = f.read()
FilterRead(ok) ==
    /\ fpc = "read"
    /\ IF ok THEN /\ content' = file
                  /\ fpc' = "backup"
                  /\ fresult' = fresult
             ELSE /\ content' = content
                  /\ fpc' = "done"
                  /\ fresult' = "read_error"
    /\ UNCHANGED <<file, backups, now, filtered_lines, li, backup_path,
                   filter_runs, guiVars, workerVars, cleanVars, extraVars>>

\* timestamp = datetime.now()...; with open(backup_path, 'w') ...:
\* f.write(content).  tick: a second has passed since the last timestamp;
\* outcome: the file could not be opened, or was opened (and truncated) and
\* the write failed, or was written.
FilterBackup(tick, outcome) ==
    /\ fpc = "backup"
    /\ now' = IF tick \/ now = 0 THEN now + 1 ELSE now
    /\ backups' =
          IF outcome = "open_fails" THEN backups
          ELSE {b \in backups : b.ts # now'} \cup
               {[ts |-> now',
                 content |-> IF outcome = "ok" THEN content ELSE EmptyText]}
    /\ backup_path' = IF outcome = "ok" THEN now' ELSE 0
    /\ fpc' = AfterBackup(outcome)
    /\ fresult' = IF outcome = "ok" THEN fresult ELSE "backup_error"
    /\ li' = 1
    /\ filtered_lines' = <<>>
    /\ UNCHANGED <<file, content, filter_runs, guiVars, workerVars, cleanVars, extraVars>>

\* one iteration of "for line in original_lines"
FilterLoop ==
    /\ fpc = "filter"
    /\ li <= Len(splitlines(content))
    /\ filtered_lines' = filtered_lines \o FilterLine(splitlines(content)[li])
    /\ li' = li + 1
    /\ UNCHANGED <<file, backups, now, fpc, content, backup_path, fresult,
                   filter_runs, guiVars, workerVars, cleanVars, extraVars>>

\* with open(file_path, 'w') ...: f.write(filtered_content)
FilterWrite(outcome) ==
    /\ fpc = "filter"
    /\ li > Len(splitlines(content))
    /\ file' = IF outcome = "ok" THEN join(filtered_lines)
               ELSE IF outcome = "write_fails" THEN EmptyText
               ELSE file
    /\ fpc' = IF outcome = "ok" THEN "stats" ELSE "done"
    /\ fresult' = IF outcome = "ok" THEN fresult ELSE "write_error"
    /\ UNCHANGED <<backups, now, content, filtered_lines, li, backup_path,
                   filter_runs, guiVars, workerVars, cleanVars, extraVars>>

\* the statistics printed after the write: removed_count/original_count
\* raises ZeroDivisionError for an empty file
FilterStats ==
    /\ fpc = "stats"
    /\ fpc' = "done"
    /\ fresult' = IF Len(splitlines(content)) = 0 THEN "stats_error" ELSE "ok"
    /\ UNCHANGED <<file, backups, now, content, filtered_lines, li,
                   backup_path, filter_runs, guiVars, workerVars, cleanVars, extraVars>>

FilterInit ==
    /\ GuiInit /\ profile_var = "" /\ WorkerInit /\ CleanIdle /\ ExtraIdle
    /\ FilterIdle /\ file \in Texts

FilterNext ==
    \/ FilterStart
    \/ \E ok \in BOOLEAN : FilterRead(ok)
    \/ \E tick \in BOOLEAN, outcome \in {"ok", "open_fails", "write_fails"} :
          FilterBackup(tick, outcome)
    \/ FilterLoop
    \/ \E outcome \in {"ok", "open_fails", "write_fails"} : FilterWrite(outcome)
    \/ FilterStats

SpecFilter == FilterInit /\ [][FilterNext]_vars

---------------------------------------------------------------------------
Gui ==
    \/ \E r \in Toggleable : ToggleResource(r)
    \/ select_all_resources
    \/ deselect_all_resources
    \/ ToggleDryRun
    \/ \E p \in ProfileChoices : SetProfile(p)
    \/ \E answer \in BOOLEAN : start_cleanup(answer)
    \/ check_thread_status

Worker ==
    \/ \E ok \in BOOLEAN : CreateSession(ok)
    \/ \E ok \in BOOLEAN, rs \in RegionLists :
          GetRegions(ok, rs)
    \/ \E raised \in BOOLEAN : CleanIAM(raised)
    \/ \E raised \in BOOLEAN : CleanRegional(raised)
    \/ NextRegion
    \/ Finish

Init ==
    GuiInit /\ WorkerInit /\ FilterIdle /\ file = EmptyText /\ CleanIdle /\ ExtraIdle

Next == Gui \/ Worker

Spec == Init /\ [][Next]_vars


\* the worker runs whenever it can, and the Tk main loop fires a due timer
FairSpec == Spec /\ WF_vars(Worker) /\ WF_vars(check_thread_status)

Clean ==
    \/ ListFails
    \/ ListResources
    \/ ListBuckets
    \/ ListVpcs
    \/ LoopIteration
    \/ LoopEnds

CleanSpecInit ==
    /\ GuiInit /\ profile_var = "" /\ WorkerInit
    /\ FilterIdle /\ file = EmptyText /\ ExtraIdle
    /\ CleanInit

SpecClean == CleanSpecInit /\ [][Clean]_vars

---------------------------------------------------------------------------
(***************************************************************************)
(* update_logging.py, main (SpecMain): where the script looks for the log  *)
(* file.  A call filter_log_file(p) is recorded as p appended to filtered. *)
(***************************************************************************)
\* the order in which os.walk(os.getcwd()) meets the files named
\* aws_cleanup.log: the working directory first, then its subdirectories
WalkOrder == <<CwdLog>> \o [n \in 1..MaxSub |-> SubLog(n)]

\* "1. ..." os.path.exists(log_file) for the working directory
MainCwd ==
    /\ mpc = "cwd"
    /\ IF CwdLog \in exists
       THEN filtered' = Append(filtered, CwdLog) /\ mpc' = "done"
       ELSE filtered' = filtered /\ mpc' = "parent"
    /\ UNCHANGED <<argv, exists, log_files, guiVars, workerVars, filterVars,
                   cleanVars, regionVars, logVars, viewVars, twiceVars>>

\* "2. ..." the parent directory
MainParent ==
    /\ mpc = "parent"
    /\ IF ParentLog \in exists
       THEN filtered' = Append(filtered, ParentLog) /\ mpc' = "done"
       ELSE filtered' = filtered /\ mpc' = "walk"
    /\ UNCHANGED <<argv, exists, log_files, guiVars, workerVars, filterVars,
                   cleanVars, regionVars, logVars, viewVars, twiceVars>>

\* "3. ..." os.walk collects log_files
MainWalk ==
    /\ mpc = "walk"
    /\ log_files' = Filter(WalkOrder, exists)
    /\ mpc' = IF log_files' # <<>> THEN "walk_loop" ELSE "argv"
    /\ UNCHANGED <<argv, exists, filtered, guiVars, workerVars, filterVars,
                   cleanVars, regionVars, logVars, viewVars, twiceVars>>

\* "for file_path in log_files: filter_log_file(file_path)", then return
MainWalkLoop ==
    /\ mpc = "walk_loop"
    /\ filtered' = Append(filtered, Head(log_files))
    /\ log_files' = Tail(log_files)
    /\ mpc' = IF log_files' = <<>> THEN "done" ELSE "walk_loop"
    /\ UNCHANGED <<argv, exists, guiVars, workerVars, filterVars, cleanVars,
                   regionVars, logVars, viewVars, twiceVars>>

\* "4. ..." len(sys.argv) > 1 and os.path.exists(sys.argv[1])
MainArgv ==
    /\ mpc = "argv"
    /\ IF argv # NoArg /\ argv \in exists
       THEN filtered' = Append(filtered, argv) /\ mpc' = "done"
       ELSE filtered' = filtered /\ mpc' = "not_found"
    /\ UNCHANGED <<argv, exists, log_files, guiVars, workerVars, filterVars,
                   cleanVars, regionVars, logVars, viewVars, twiceVars>>

\* the script is started with or without an argument
MainInit ==
    /\ GuiInit /\ profile_var = "" /\ WorkerInit /\ CleanIdle
    /\ FilterIdle /\ file = EmptyText
    /\ argv \in {NoArg} \cup Paths
    /\ exists \in SUBSET Paths
    /\ mpc = "cwd"
    /\ log_files = <<>>
    /\ filtered = <<>>
    /\ RegionIdle /\ LogIdle /\ ViewIdle /\ TwiceIdle

Main ==
    \/ MainCwd
    \/ MainParent
    \/ MainWalk
    \/ MainWalkLoop
    \/ MainArgv

SpecMain == MainInit /\ [][Main]_vars

---------------------------------------------------------------------------
(***************************************************************************)
(* One region of run_cleanup's loop with the region's security groups     *)
(* followed from cleaner to cleaner (SpecRegion).  The EC2 cleaner (step   *)
(* 2) and the VPC cleaner (step 11, VPC by VPC) both list the security     *)
(* groups that exist at that moment and delete the non-default ones; the   *)
(* provider deletes the group, rejects the call because of a dependency,   *)
(* or fails otherwise, and a group it did not delete is listed again.      *)
(* The steps that never name a security group are left out.                *)
(***************************************************************************)
\* the cleaners that call delete_security_group
SgCleaners == {"EC2", "VPC"}
RegionSelections ==
    {Filter(ResourceOrder, S) : S \in (SUBSET SgCleaners) \ {{}}}
\* the provider's answers to delete_security_group
SgAnswers == {"ok", "dependency", "error"}
\* the security groups a region can hold: ids 1..n, each in one VPC
SgSets ==
    UNION {[1..n -> [GroupName : {"default", "custom"}, vpc : 1..MaxVpcs]] :
              n \in 0..MaxRes}
SgList(f) == [i \in DOMAIN f |-> [id |-> i, GroupName |-> f[i].GroupName,
                                  vpc |-> f[i].vpc]]
RECURSIVE Without(_, _)
Without(s, id) ==
    IF s = <<>> THEN <<>>
    ELSE IF Head(s).id = id THEN Without(Tail(s), id)
    ELSE <<Head(s)>> \o Without(Tail(s), id)
RECURSIVE InVpcOnly(_, _)
\* Filters=[{'Name': 'vpc-id', 'Values': [vpc_id]}]
InVpcOnly(s, v) ==
    IF s = <<>> THEN <<>>
    ELSE IF Head(s).vpc = v THEN <<Head(s)>> \o InVpcOnly(Tail(s), v)
    ELSE InVpcOnly(Tail(s), v)

\* run_cleanup: module.clean(region, session, dry_run) of the next selected
\* module; after the last one the region is done
RegionNextModule ==
    /\ cexit = "running"
    /\ phase = "next"
    /\ IF mi <= Len(resource_modules(args.resources))
       THEN /\ cleaner' = resource_modules(args.resources)[mi]
            /\ mi' = mi + 1
            /\ cpc' = "security_groups"
            /\ phase' = "list"
            /\ vi' = IF cleaner' = "VPC" THEN 1 ELSE 0
            /\ cexit' = cexit
       ELSE /\ cexit' = "completed"
            /\ UNCHANGED <<cleaner, mi, cpc, phase, vi>>
    /\ UNCHANGED <<dry_run, todo, calls, budget, vpcs, region_name, sgs, results,
                   wpc, args, regions, ri, events, thread_exit,
                   guiVars, filterVars, mainVars, logVars, viewVars, twiceVars>>

\* describe_security_groups: of the region (ec2.py), of the VPC (vpc.py)
RegionListSecurityGroups ==
    /\ cexit = "running"
    /\ phase = "list"
    /\ todo' = IF cleaner = "EC2" THEN sgs ELSE InVpcOnly(sgs, vpcs[vi].id)
    /\ phase' = "loop"
    /\ UNCHANGED <<cleaner, dry_run, cpc, calls, budget, vpcs, vi, cexit,
                   region_name, sgs, results, workerVars, guiVars, filterVars, mainVars, logVars, viewVars, twiceVars>>

\* one iteration of "for sg in ..."; a is the provider's answer when
\* delete_security_group is called
RegionDeleteSecurityGroup ==
    /\ cexit = "running"
    /\ phase = "loop"
    /\ todo # <<>>
    /\ \E a \in SgAnswers :
          LET r == Head(todo)
              o == [n \in 1..4 |-> a = "ok"]
              c == IF cleaner = "EC2"
                   THEN ec2_security_group(r, dry_run, o)
                   ELSE vpc_security_group(r, dry_run, o, vpcs[vi].id)
          IN  /\ calls' = calls \o c
              /\ results' = results \o [i \in DOMAIN c |-> a]
              /\ sgs' = IF c # <<>> /\ a = "ok" THEN Without(sgs, r.id)
                        ELSE sgs
              /\ c = <<>> => a = "ok"
    /\ todo' = Tail(todo)
    /\ UNCHANGED <<cleaner, dry_run, cpc, phase, budget, vpcs, vi, cexit,
                   region_name, workerVars, guiVars, filterVars, mainVars, logVars,
                   viewVars, twiceVars>>

\* the loop is exhausted: the next VPC of vpc.py's loop, or the cleaner is
\* done with the security groups
RegionLoopEnds ==
    /\ cexit = "running"
    /\ phase = "loop"
    /\ todo = <<>>
    /\ IF cleaner = "VPC" /\ vi < Len(vpcs)
       THEN vi' = vi + 1 /\ phase' = "list"
       ELSE vi' = vi /\ phase' = "next"
    /\ UNCHANGED <<cleaner, dry_run, cpc, todo, calls, budget, vpcs, cexit,
                   region_name, sgs, results, workerVars, guiVars, filterVars, mainVars, logVars, viewVars, twiceVars>>

\* the worker is in the region loop, at the first module of a region
RegionInit ==
    /\ args \in [profile : {"default"}, resources : RegionSelections,
                 dry_run : BOOLEAN]
    /\ profile_var = args.profile
    /\ dry_run_var = args.dry_run
    /\ resource_vars = Range(args.resources)
    /\ start_button = "disabled"
    /\ messagebox = "confirm_yes"
    /\ after_pending = TRUE
    /\ dialogs = 0
    /\ wpc = "loop" /\ regions = <<1>> /\ ri = 1 /\ mi = 1
    /\ events = <<>> /\ thread_exit = "none"
    /\ FilterIdle /\ file = EmptyText /\ MainIdle /\ LogIdle /\ ViewIdle
    /\ TwiceIdle
    /\ cleaner = "" /\ dry_run = args.dry_run /\ cpc = "end" /\ phase = "next"
    /\ todo = <<>> /\ calls = <<>> /\ budget = 0
    /\ vpcs = [v \in 1..MaxVpcs |-> [id |-> v, IsDefault |-> FALSE]]
    /\ vi = 0 /\ cexit = "running" /\ region_name = DefaultRegion
    /\ \E f \in SgSets : sgs = SgList(f)
    /\ results = <<>>

Region ==
    \/ RegionNextModule
    \/ RegionListSecurityGroups
    \/ RegionDeleteSecurityGroup
    \/ RegionLoopEnds

SpecRegion == RegionInit /\ [][Region]_vars

---------------------------------------------------------------------------
(***************************************************************************)
(* The logging calls of a cleaner (SpecLog): one iteration of a loop of    *)
(* ec2.py, s3.py, cloudformation.py or of vpc.py's steps 11 and 15, run    *)
(* for the same listed resource with dry_run True and with dry_run False.  *)
(* A record carries the level of the logger call, what the message says,   *)
(* the resource it names and, when it reports a ClientError, what the      *)
(* provider's message gave as the cause.                                   *)
(***************************************************************************)
\* what str(e) of a ClientError tells: the resource is in use, it has
\* dependents (or is not empty), it does not exist, anything else
Causes == {"in_use", "has_dependents", "not_found", "other"}

Log(dry, level, text, kind, id, cause) ==
    [dry |-> dry, level |-> level, text |-> text, kind |-> kind, id |-> id,
     cause |-> cause]

\* logger.warning("Deleting ..."), the call, logger.warning("Successfully
\* ...") or the record of the except clause, logged at level
TryDelete(dry, kind, id, ok, level, cause) ==
    <<Log(dry, "WARNING", "deleting", kind, id, "-")>> \o
    (IF ok THEN <<Log(dry, "WARNING", "deleted", kind, id, "-")>>
     ELSE <<Log(dry, level, "failed", kind, id, cause)>>)

\* "has a dependent object" in str(e) or "currently in use by" in str(e)
sg_still_in_use(cause) == cause \in {"has_dependents", "in_use"}
\* "has dependencies" in str(e) or "DependencyViolation" in str(e)
vpc_has_dependencies(cause) == cause = "has_dependents"
\* 'BucketNotEmpty' in str(e)
bucket_not_empty(cause) == cause = "has_dependents"

\* ---- cleaner/ec2.py
ec2_instance_log(r, dry, o, cause) ==
    IF r.State \in {"terminated", "shutting-down"}
    THEN <<Log(dry, "INFO", "skipping", "instance", r.id, "-")>>
    ELSE <<Log(dry, "INFO", "found", "instance", r.id, "-")>> \o
         (IF dry THEN <<>>
          ELSE TryDelete(dry, "instance", r.id, o[1], "ERROR", cause))

ec2_security_group_log(r, dry, o, cause) ==
    IF r.GroupName = "default" THEN <<>>
    ELSE <<Log(dry, "INFO", "found", "security_group", r.id, "-")>> \o
         (IF dry THEN <<>>
          ELSE TryDelete(dry, "security_group", r.id, o[1],
                         IF sg_still_in_use(cause) THEN "WARNING" ELSE "ERROR",
                         cause))

ec2_address_log(r, dry, o, cause) ==
    IF ~r.AllocationId
    THEN <<Log(dry, "INFO", "skipping", "address", r.id, "-")>>
    ELSE <<Log(dry, "INFO", "found", "address", r.id, "-")>> \o
         (IF dry THEN <<>>
          ELSE TryDelete(dry, "address", r.id, o[1], "ERROR", cause))

ec2_volume_log(r, dry, o, cause) ==
    <<Log(dry, "INFO", "found", "volume", r.id, "-")>> \o
    (IF r.State = "in-use"
     THEN <<Log(dry, "WARNING", "skipping", "volume", r.id, "-")>>
     ELSE IF dry THEN <<>>
     ELSE TryDelete(dry, "volume", r.id, o[1], "ERROR", cause))

ec2_snapshot_log(r, dry, o, cause) ==
    <<Log(dry, "INFO", "found", "snapshot", r.id, "-")>> \o
    (IF dry THEN <<>>
     ELSE TryDelete(dry, "snapshot", r.id, o[1], "ERROR", cause))

ec2_image_log(r, dry, o, cause) ==
    <<Log(dry, "INFO", "found", "image", r.id, "-")>> \o
    (IF dry THEN <<>>
     ELSE TryDelete(dry, "image", r.id, o[1], "ERROR", cause) \o
          (IF o[1] /\ r.SnapshotId # 0
           THEN TryDelete(dry, "snapshot", r.SnapshotId, o[2], "ERROR", cause)
           ELSE <<>>))

\* ---- cleaner/s3.py: the body of "for bucket_name in region_buckets";
\* o[1] the deletion of the objects, o[2] delete_bucket_lifecycle, o[3]
\* delete_bucket_policy, o[4] delete_bucket
s3_bucket_log(r, dry, o, cause) ==
    <<Log(dry, "INFO", "found", "bucket", r.id, "-")>> \o
    (IF dry THEN <<Log(dry, "INFO", "would_delete", "bucket", r.id, "-")>>
     ELSE <<Log(dry, "WARNING", "deleting", "bucket_objects", r.id, "-")>> \o
          (IF ~o[1]
           THEN <<Log(dry, "ERROR", "failed", "bucket", r.id, cause)>>
           ELSE (IF o[2]
                 THEN <<Log(dry, "INFO", "deleted", "bucket_lifecycle", r.id, "-")>>
                 ELSE IF cause = "not_found" THEN <<>>
                 ELSE <<Log(dry, "ERROR", "failed", "bucket_lifecycle", r.id, cause)>>)
                \o
                (IF o[3]
                 THEN <<Log(dry, "INFO", "deleted", "bucket_policy", r.id, "-")>>
                 ELSE IF cause = "not_found" THEN <<>>
                 ELSE <<Log(dry, "ERROR", "failed", "bucket_policy", r.id, cause)>>)
                \o
                TryDelete(dry, "bucket", r.id, o[4],
                          IF bucket_not_empty(cause) THEN "ERROR" ELSE "ERROR",
                          cause)))

\* ---- cleaner/cloudformation.py: the body of "for stack in ..."; for a
\* stack in a failed state o[1] is list_stack_resources, o[2] the
\* delete_stack after it, o[3] the delete_stack of the except clause
cfn_stack_log(r, dry, o, cause) ==
    <<Log(dry, "INFO", "found", "stack", r.id, "-")>> \o
    (IF r.StackStatus \in {"DELETE_IN_PROGRESS"}
     THEN <<Log(dry, "INFO", "skipping", "stack", r.id, "-")>>
     ELSE IF dry
     THEN <<Log(dry, "INFO", "would_delete", "stack", r.id, "-")>>
     ELSE IF r.Nested
     THEN <<Log(dry, "INFO", "skipping", "stack", r.id, "-")>>
     ELSE IF r.StackStatus \in FailedStatuses
     THEN IF o[1] /\ o[2]
          THEN TryDelete(dry, "stack", r.id, TRUE, "ERROR", cause)
          ELSE (IF o[1]
                THEN <<Log(dry, "WARNING", "deleting", "stack", r.id, "-")>>
                ELSE <<>>) \o
               <<Log(dry, "ERROR", "failed", "stack", r.id, cause)>> \o
               TryDelete(dry, "stack", r.id, o[3], "ERROR", cause)
     ELSE TryDelete(dry, "stack", r.id, o[1], "ERROR", cause))

\* ---- cleaner/vpc.py
\* "11. Delete Security Groups (except default)"
vpc_security_group_log(r, dry, o, cause) ==
    IF r.GroupName = "default"
    THEN <<Log(dry, "INFO", "skipping", "security_group", r.id, "-")>>
    ELSE <<Log(dry, "INFO", "found", "security_group", r.id, "-")>> \o
         (IF dry THEN <<>>
          ELSE TryDelete(dry, "security_group", r.id, o[1],
                         IF sg_still_in_use(cause) THEN "WARNING" ELSE "ERROR",
                         cause))

\* "15. Delete VPCs"
vpc_delete_vpc_log(r, dry, o, cause) ==
    IF dry THEN <<Log(dry, "INFO", "would_delete", "vpc", r.id, "-")>>
    ELSE IF r.IsDefault
    THEN <<Log(dry, "WARNING", "skipping", "vpc", r.id, "-")>>
    ELSE TryDelete(dry, "vpc", r.id, o[1],
                   IF vpc_has_dependencies(cause) THEN "WARNING" ELSE "ERROR",
                   cause)

\* the loops whose logging calls are followed
LogSteps ==
    {<<"EC2", ec2_steps[i]>> : i \in DOMAIN ec2_steps}
    \cup {<<"S3", "buckets">>, <<"CloudFormation", "stacks">>,
          <<"VPC", "vpc_security_groups">>, <<"VPC", "delete_vpcs">>}

\* the resources a loop can meet; "15. Delete VPCs" loops over the VPCs of
\* describe_vpcs, s3.py over the buckets of the region
LogShapes(module, step) ==
    IF step = "delete_vpcs" THEN Shapes(module, "vpcs")
    ELSE IF module = "S3" THEN {b \in Shapes(module, step) : in_region(b, DefaultRegion)}
    ELSE Shapes(module, step)

LoopLog(module, step, r, dry, o, cause) ==
    CASE step = "instances" -> ec2_instance_log(r, dry, o, cause)
      [] step = "security_groups" -> ec2_security_group_log(r, dry, o, cause)
      [] step = "addresses" -> ec2_address_log(r, dry, o, cause)
      [] step = "volumes" -> ec2_volume_log(r, dry, o, cause)
      [] step = "snapshots" -> ec2_snapshot_log(r, dry, o, cause)
      [] step = "images" -> ec2_image_log(r, dry, o, cause)
      [] step = "buckets" -> s3_bucket_log(r, dry, o, cause)
      [] step = "stacks" -> cfn_stack_log(r, dry, o, cause)
      [] step = "vpc_security_groups" -> vpc_security_group_log(r, dry, o, cause)
      [] step = "delete_vpcs" -> vpc_delete_vpc_log(r, dry, o, cause)

\* ---- aws_cleanup_gui.py: the logging configuration
LevelOrder == <<"NOTSET", "INFO", "WARNING", "ERROR">>
LevelPos(level) == CHOOSE i \in DOMAIN LevelOrder : LevelOrder[i] = level
AtLeast(level, threshold) == LevelPos(level) >= LevelPos(threshold)
\* basicConfig(level=logging.WARNING) sets the root logger's level; no other
\* logger is given one
LoggerLevel(name) == IF name = "root" THEN "WARNING" ELSE "NOTSET"
\* Logger.getEffectiveLevel: the first level set on the way to the root
getEffectiveLevel(name) ==
    IF LoggerLevel(name) # "NOTSET" THEN LoggerLevel(name) ELSE LoggerLevel("root")
\* the FileHandler of basicConfig, console_handler, text_handler
HandlerLevel(handler) ==
    CASE handler = "file" -> "NOTSET"
      [] handler = "console" -> "INFO"
      [] handler = "text" -> "INFO"
Handlers(name) ==
    CASE name = "root" -> {"file", "console"}
      [] name = "__main__" -> {"text"}
      [] OTHER -> {}
\* Logger.callHandlers: the logger's handlers and, by propagation, the root's
callHandlers(name) == Handlers(name) \cup Handlers("root")
\* the handlers that emit a record of this level logged on logger name
Delivered(name, level) ==
    IF ~AtLeast(level, getEffectiveLevel(name)) THEN {}
    ELSE {h \in callHandlers(name) : AtLeast(level, HandlerLevel(h))}

RECURSIVE Emitted(_, _, _)
\* the records of recs, logged on logger name, that handler emits
Emitted(recs, name, handler) ==
    IF recs = <<>> THEN <<>>
    ELSE (IF handler \in Delivered(name, Head(recs).level)
          THEN <<Head(recs)>> ELSE <<>>) \o Emitted(Tail(recs), name, handler)

\* the iterations followed: resource 1 of a listing, with the outcome of
\* each call made for it and the cause a failing call reports
Probes ==
    UNION {[module : {ms[1]}, step : {ms[2]},
            r : {[x EXCEPT !.id = 1] : x \in LogShapes(ms[1], ms[2])},
            o : Outcomes, cause : Causes] : ms \in LogSteps}

\* the loop body runs for the resource with dry_run = dry
RunIteration(dry) ==
    /\ probe # NoProbe
    /\ dry \notin modes
    /\ modes' = modes \cup {dry}
    /\ LET recs == LoopLog(probe.module, probe.step, probe.r, dry, probe.o,
                           probe.cause)
       IN  /\ records' = records \o recs
           /\ log_file' = log_file \o Emitted(recs, "cleaner", "file")
           /\ console' = console \o Emitted(recs, "cleaner", "console")
    /\ calls' = calls \o LoopBody(probe.module, probe.step, probe.r, dry,
                                  probe.o, 1)
    /\ UNCHANGED <<probe, cleaner, dry_run, cpc, phase, todo, budget, vpcs, vi,
                   cexit, region_name, guiVars, workerVars, filterVars, mainVars,
                   regionVars, viewVars, twiceVars>>

LogInit ==
    /\ GuiInit /\ profile_var = "" /\ WorkerInit /\ CleanIdle
    /\ FilterIdle /\ file = EmptyText /\ MainIdle /\ RegionIdle /\ ViewIdle
    /\ TwiceIdle
    /\ probe \in Probes
    /\ modes = {} /\ records = <<>> /\ log_file = <<>> /\ console = <<>>

LogNext == \E dry \in BOOLEAN : RunIteration(dry)

SpecLog == LogInit /\ [][LogNext]_vars

---------------------------------------------------------------------------
(***************************************************************************)
(* TextHandler and the log pane (SpecView): the worker thread makes        *)
(* logging calls on the logger of aws_cleanup_gui.py, which carries        *)
(* text_handler; the GUI thread runs the callbacks Tk holds.               *)
(***************************************************************************)
\* logging calls of the worker that are followed
MaxRecords == 3

\* TextHandler.emit(record), on the thread of the logging call
emit_direct(msg) ==
    /\ log_text' = Append(log_text, msg)
    /\ UNCHANGED <<after_queue, text_state>>
emit(msg) ==
    /\ after_queue' = Append(after_queue, msg)
    /\ UNCHANGED <<log_text, text_state>>

\* run_cleanup: logger.info / logger.warning / logger.error(...)
LoggerCall(level) ==
    /\ emits < MaxRecords
    /\ emits' = emits + 1
    /\ LET msg == [n |-> emits + 1, level |-> level]
           to == Delivered("__main__", level)
       IN  /\ log_file' = IF "file" \in to THEN Append(log_file, msg) ELSE log_file
           /\ console' = IF "console" \in to THEN Append(console, msg) ELSE console
           /\ IF "text" \in to THEN emit(msg)
              ELSE UNCHANGED <<after_queue, log_text, text_state>>
    /\ UNCHANGED <<probe, modes, records, guiVars, workerVars, filterVars,
                   cleanVars, mainVars, regionVars, twiceVars>>

\* the GUI thread runs the oldest callback: append() of TextHandler.emit
append ==
    /\ after_queue # <<>>
    /\ log_text' = Append(log_text, Head(after_queue))
    /\ text_state' = "disabled"
    /\ after_queue' = Tail(after_queue)
    /\ UNCHANGED <<emits, logVars, guiVars, workerVars, filterVars, cleanVars,
                   mainVars, regionVars, twiceVars>>

ViewInit ==
    /\ GuiInit /\ profile_var = "" /\ WorkerInit /\ CleanIdle
    /\ FilterIdle /\ file = EmptyText /\ MainIdle /\ RegionIdle /\ LogIdle
    /\ ViewIdle /\ TwiceIdle

View ==
    \/ \E level \in {"INFO", "WARNING", "ERROR"} : LoggerCall(level)
    \/ append

SpecView == ViewInit /\ [][View]_vars

---------------------------------------------------------------------------
(***************************************************************************)
(* update_logging.py: the body of "for line in original_lines" on a line   *)
(* spelled in pieces smaller than the markers, so that occurrences of a    *)
(* marker may overlap: a piece is " -", " " or a word, and a line is a     *)
(* sequence of pieces.  The file is filtered twice.                        *)
(***************************************************************************)
\* chunks a followed line is made of
MaxChunks == 3

\* " - INFO - "
info_marker == <<" -", " ", "INFO", " -", " ">>
\* " - WARNING -"
warning_marker == <<" -", " ", "WARNING", " -">>
\* " - WARNING - "
warning_replacement == <<" -", " ", "WARNING", " -", " ">>
\* " - INFO - Completed"
info_completed_marker == info_marker \o <<"Completed">>
\* "Successfully"
successfully_marker == <<"Successfully">>

\* what the lines of the input are made of: the markers, "INFO - " (what is
\* left of " - INFO - " when its first three characters belong to the chunk
\* before), and other text
Chunks ==
    {info_marker, <<"INFO", " -", " ">>, warning_marker, <<"Completed">>,
     successfully_marker, <<"x">>}

RECURSIVE ChunkLines(_)
\* the lines of at most k chunks
ChunkLines(k) ==
    IF k = 0 THEN {<<>>}
    ELSE {<<>>} \cup {c \o rest : c \in Chunks, rest \in ChunkLines(k - 1)}

\* "marker in line"
in_line(marker, line) ==
    \E i \in 1..(Len(line) - Len(marker) + 1) :
        SubSeq(line, i, i + Len(marker) - 1) = marker

RECURSIVE str_replace(_, _, _)
\* line.replace(old, new): the occurrences of old from left to right, none
\* overlapping the one before
str_replace(line, old, new) ==
    IF Len(line) < Len(old) THEN line
    ELSE IF SubSeq(line, 1, Len(old)) = old
    THEN new \o str_replace(SubSeq(line, Len(old) + 1, Len(line)), old, new)
    ELSE <<Head(line)>> \o str_replace(Tail(line), old, new)

\* the body of "for line in original_lines": what the line adds to
\* filtered_lines
filter_body(line) ==
    IF in_line(info_completed_marker, line)
    THEN <<str_replace(line, info_marker, warning_replacement)>>
    ELSE IF in_line(warning_marker, line) THEN <<line>>
    ELSE IF in_line(successfully_marker, line) THEN <<line>>
    ELSE <<>>

RECURSIVE filter_pass(_)
\* the loop "for line in original_lines"
filter_pass(lines) ==
    IF lines = <<>> THEN <<>>
    ELSE filter_body(Head(lines)) \o filter_pass(Tail(lines))

\* filter_log_file on the file that holds original_line
FirstPass ==
    /\ passes = 0
    /\ first_pass' = filter_pass(splitlines(Text(<<original_line>>, TRUE)))
    /\ passes' = 1
    /\ UNCHANGED <<original_line, second_pass, guiVars, workerVars, filterVars,
                   cleanVars, mainVars, regionVars, logVars, viewVars>>

\* filter_log_file on the file the first call wrote
SecondPass ==
    /\ passes = 1
    /\ second_pass' = filter_pass(splitlines(join(first_pass)))
    /\ passes' = 2
    /\ UNCHANGED <<original_line, first_pass, guiVars, workerVars, filterVars,
                   cleanVars, mainVars, regionVars, logVars, viewVars>>

TwiceInit ==
    /\ GuiInit /\ profile_var = "" /\ WorkerInit /\ CleanIdle
    /\ FilterIdle /\ file = EmptyText /\ MainIdle /\ RegionIdle /\ LogIdle
    /\ ViewIdle
    /\ original_line \in ChunkLines(MaxChunks)
    /\ first_pass = <<>> /\ second_pass = <<>> /\ passes = 0

Twice == FirstPass \/ SecondPass

SpecTwice == TwiceInit /\ [][Twice]_vars

---------------------------------------------------------------------------
(***************************************************************************)
(* Properties of run_cleanup (Spec, FairSpec).                             *)
(***************************************************************************)
CleanAt(i) == events[i].op = "clean"
SessionOk == \E i \in DOMAIN events : events[i].op = "session" /\ ~events[i].raised
CountOp(op) == Cardinality({i \in DOMAIN events : events[i].op = op})
IAMInvocations == {i \in DOMAIN events : CleanAt(i) /\ events[i].module = "IAM"}
Regional == Range(args.resources) \ {"IAM"}
\* the invocations of cleaner m for the k-th region of the list
PairInvocations(m, k) ==
    {j \in DOMAIN events :
        CleanAt(j) /\ events[j].module = m /\ events[j].region = regions[k]}
RegionIndex(r) == CHOOSE k \in DOMAIN regions : regions[k] = r
ModulePos(m) == CHOOSE k \in DOMAIN ModuleOrder : ModuleOrder[k] = m

\* C3: when IAM is selected and the session was created, the IAM cleaner is
\* invoked exactly once by the time the regional loop is reached, for any
\* number of regions, and never as an iteration of the regional loop.
C3_IAMExactlyOnce ==
    /\ Cardinality(IAMInvocations) <= 1
    /\ \A i \in IAMInvocations :
          /\ events[i].region = 0
          /\ \A j \in 1..(i - 1) : ~CleanAt(j)
    /\ (wpc \in {"loop", "dead"} /\ SessionOk /\ "IAM" \in Range(args.resources))
          => Cardinality(IAMInvocations) = 1

C3_Witness ==
    /\ wpc = "dead"
    /\ "IAM" \in Range(args.resources)
    /\ Len(regions) >= 2
    /\ Regional # {}
    /\ Cardinality(IAMInvocations) = 1

\* C4: when the run has ended after a created session, every cleaner
\* invocation that raised is followed by the invocation of every selected
\* cleaner still due: the later modules of its region and all modules of the
\* later regions; after a raising IAM cleaner, all regional invocations.
C4_FailureDoesNotAbort ==
    (wpc = "dead" /\ SessionOk) =>
        \A i \in DOMAIN events :
            (CleanAt(i) /\ events[i].raised) =>
                \A k \in DOMAIN regions, m \in Regional :
                    (\/ events[i].module = "IAM"
                     \/ k > RegionIndex(events[i].region)
                     \/ /\ k = RegionIndex(events[i].region)
                        /\ ModulePos(m) > ModulePos(events[i].module))
                    => \E j \in PairInvocations(m, k) : j > i

C4_Witness ==
    /\ wpc = "dead"
    /\ Len(regions) >= 2
    /\ \E i \in DOMAIN events :
          /\ CleanAt(i) /\ events[i].raised
          /\ events[i].region = regions[1]
          /\ \E j \in DOMAIN events :
                j > i /\ CleanAt(j) /\ events[j].region = regions[2]

\* C8: one session and one region listing per run; the IAM invocation comes
\* before every regional one; at the end of a run whose session was created
\* every (region, selected regional type) was invoked exactly once and nothing
\* else was, the regions in the order of the list.
C8_RunShape ==
    /\ CountOp("session") <= 1
    /\ CountOp("regions") <= 1
    /\ wpc \in {"regions", "iam", "loop", "dead"} => CountOp("session") = 1
    /\ wpc \in {"iam", "loop"} => CountOp("regions") = 1
    /\ \A i, j \in DOMAIN events :
          (CleanAt(i) /\ CleanAt(j) /\ events[i].module = "IAM"
             /\ events[j].module # "IAM") => i < j
    /\ \A i, j \in DOMAIN events :
          (CleanAt(i) /\ CleanAt(j) /\ i < j /\ events[i].module # "IAM"
             /\ events[j].module # "IAM")
          => RegionIndex(events[i].region) <= RegionIndex(events[j].region)
    /\ \A k \in DOMAIN regions, m \in ResourceNames :
          Cardinality(PairInvocations(m, k)) <= 1
    /\ (wpc = "dead" /\ SessionOk) =>
          /\ CountOp("regions") = 1
          /\ \A k \in DOMAIN regions, m \in Regional :
                Cardinality(PairInvocations(m, k)) = 1
          /\ \A j \in DOMAIN events :
                (CleanAt(j) /\ events[j].module # "IAM")
                => events[j].module \in Regional /\ events[j].region \in Range(regions)

C8_Witness ==
    /\ wpc = "dead"
    /\ SessionOk
    /\ Len(regions) >= 2
    /\ regions[1] > regions[2]
    /\ Range(args.resources) = ResourceNames
    /\ Len(events) = 3 + 2 * Cardinality(Regional)

\* C9: the worker never ends by an uncaught exception and while it runs the
\* Start button stays disabled with no completion dialog shown; once started,
\* the worker ends and then the GUI thread re-enables Start and shows the
\* completion dialog, once.
C9_AlwaysCompletes ==
    /\ [](thread_exit # "uncaught" /\ dialogs <= 1)
    /\ [](wpc \notin {"idle", "dead"} => (start_button = "disabled" /\ dialogs = 0))
    /\ (wpc = "session") ~> (wpc = "dead" /\ start_button = "normal" /\ dialogs = 1)

C9_Witness ==
    /\ wpc = "dead"
    /\ thread_exit = "returned"
    /\ Raised(events) >= 1
    /\ start_button = "normal"
    /\ dialogs = 1

---------------------------------------------------------------------------
(***************************************************************************)
(* Properties of filter_log_file (SpecFilter).                             *)
(***************************************************************************)
\* the lines the filter is said to keep
Matches(line) ==
    \/ Contains(line, WARNING)
    \/ Contains(line, SUCCESSFULLY)
    \/ ContainsInfoCompleted(line)
\* a kept line as it is said to be written
Rewritten(line) == IF ContainsInfoCompleted(line) THEN replace(line) ELSE line
ExpectedLines(lines) ==
    [i \in 1..Len(SelectSeq(lines, Matches)) |->
        Rewritten(SelectSeq(lines, Matches)[i])]
\* the write of the filtered text has been done
Written == fpc = "stats" \/ (fpc = "done" /\ fresult \in {"ok", "stats_error"})

\* C6: once filter_log_file has written the file, its lines are, in the
\* original order, the lines read that contain " - WARNING -",
\* "Successfully" or " - INFO - Completed", the last kind with every
\* " - INFO - " replaced by " - WARNING - ", and nothing else.
C6_FilteredLines ==
    Written => splitlines(file) = ExpectedLines(splitlines(content))

C6_Witness ==
    /\ fpc = "done"
    /\ fresult = "ok"
    /\ Len(splitlines(content)) = 2
    /\ Len(splitlines(file)) = 1
    /\ \E i \in 1..2 : ContainsInfoCompleted(splitlines(content)[i])
    /\ splitlines(file)[1] \notin Range(splitlines(content))

\* C7: a step that changes the log file is taken only when the backup of
\* this call has been written and holds the text the file had; a call that
\* ends by a failed read or a failed backup has written no backup path and
\* leaves the file as it was.
C7_BackupBeforeWrite ==
    /\ [](fresult \in {"read_error", "backup_error"} => backup_path = 0)
    /\ [][/\ file' # file =>
               /\ backup_path # 0
               /\ [ts |-> backup_path, content |-> file] \in backups
          /\ fresult' \in {"read_error", "backup_error"} => file' = file]_vars

C7_Witness ==
    /\ fpc = "done"
    /\ fresult = "ok"
    /\ file # content
    /\ content.lines # <<>>
    /\ [ts |-> backup_path, content |-> content] \in backups

---------------------------------------------------------------------------
(***************************************************************************)
(* Claims about one invocation of a cleaner (SpecClean).                   *)
(***************************************************************************)
\* the calls that change a resource without deleting it
NotDelete ==
    {"modify_db_instance", "modify_db_cluster", "detach_internet_gateway",
     "detach_vpn_gateway", "disassociate_route_table",
     "remove_role_from_instance_profile", "remove_user_from_group",
     "deactivate_mfa_device", "detach_user_policy", "detach_group_policy",
     "detach_role_policy"}

IsDelete(call) == call.op \notin NotDelete

\* the listed statuses of a resource that is being deleted or is deleted
DeletingStates ==
    {"deleting", "deleted", "shutting-down", "terminated", "DELETE_IN_PROGRESS"}

\* C1: in dry-run mode no cleaner issues a mutating call, whatever the
\* provider lists and whatever state the listed resources are in.
C1_DryRunNoMutatingCall == dry_run => calls = <<>>

\* a dry run went through all its steps after the provider listed resources
C1_Witness == dry_run /\ cexit = "completed" /\ budget = 0

\* C2: in live mode a resource whose listed status is a deleting or deleted
\* one never receives a delete call.
C2_NoDeleteWhenDeleting ==
    ~dry_run =>
        \A i \in 1..Len(calls) :
            IsDelete(calls[i]) => calls[i].state \notin DeletingStates

\* the step of the declared order of vpc.py a call belongs to
StepOf(call) ==
    CASE call.op = "delete_nat_gateway" -> 1
      [] call.op = "delete_network_interface" -> 2
      [] call.op \in {"detach_internet_gateway", "delete_internet_gateway"} -> 3
      [] call.op = "delete_vpn_connection" -> 4
      [] call.op \in {"detach_vpn_gateway", "delete_vpn_gateway"} -> 5
      [] call.op = "delete_transit_gateway_vpc_attachment" -> 6
      [] call.op = "delete_transit_gateway" -> 7
      [] call.op = "disassociate_route_table" -> 8
      [] call.op = "delete_route_table" -> 9
      [] call.op = "delete_subnet" -> 10
      [] call.op = "delete_security_group" -> 11
      [] call.op = "delete_network_acl" -> 12
      [] call.op = "delete_vpc_endpoints" -> 13
      [] call.op = "delete_vpc_peering_connection" -> 14
      [] call.op = "delete_vpc" -> 15

\* steps 8 to 13 are done VPC by VPC
PerVpc(call) == StepOf(call) \in 8..13

\* steps 8 and 9 are done route table by route table
RouteTableStep(call) == StepOf(call) \in {8, 9}

C10_AtMostOneDelete ==
    \A i, j \in 1..Len(calls) :
        (i < j /\ IsDelete(calls[i])) =>
            ~(/\ calls[i].op = calls[j].op
              /\ calls[i].kind = calls[j].kind
              /\ calls[i].id = calls[j].id
              /\ calls[i].sub = calls[j].sub)


---------------------------------------------------------------------------
(***************************************************************************)
(* Properties of the start of a run and of its set-up (Spec).              *)
(***************************************************************************)
RegionsFailed == \E i \in DOMAIN events : events[i].op = "regions" /\ events[i].raised
SessionFailed == \E i \in DOMAIN events : events[i].op = "session" /\ events[i].raised
\* the worker thread exists and has not ended
Alive == wpc \notin {"idle", "dead"}
Refusals == {"error_profile", "error_resources", "confirm_no"}

\* C13: after a failed session creation no cleaner is invoked, the regions
\* are not asked for and the worker has returned; after a failed region
\* listing no regional cleaner is invoked, the IAM cleaner is still invoked
\* once when IAM is selected, and the run ends by a normal return.
C13_SetupFailures ==
    /\ SessionFailed =>
          /\ wpc = "dead"
          /\ thread_exit = "returned"
          /\ CountOp("clean") = 0
          /\ CountOp("regions") = 0
    /\ RegionsFailed =>
          /\ regions = <<>>
          /\ \A i \in DOMAIN events : CleanAt(i) => events[i].module = "IAM"
          /\ Cardinality(IAMInvocations) <= 1
          /\ wpc \in {"loop", "dead"} =>
                Cardinality(IAMInvocations) =
                    (IF "IAM" \in Range(args.resources) THEN 1 ELSE 0)
          /\ wpc = "dead" => thread_exit = "returned"

C13_Witness ==
    /\ RegionsFailed
    /\ wpc = "dead"
    /\ thread_exit = "returned"
    /\ Regional # {}
    /\ Cardinality(IAMInvocations) = 1
    /\ CountOp("clean") = 1

\* C16: a worker thread is started only by a step taken with a profile set,
\* at least one resource type ticked and the confirmation answered yes; a
\* start_cleanup that shows an error or is answered no leaves the Start
\* button enabled and changes nothing else; before the first start no
\* session, region or cleaner call has been made.
C16_StartGuards ==
    /\ [](wpc = "idle" => events = <<>>)
    /\ [][(wpc # "session" /\ wpc' = "session") =>
              /\ profile_var # ""
              /\ selected_resources # <<>>
              /\ messagebox' = "confirm_yes"
              /\ args' = [profile |-> profile_var,
                          resources |-> selected_resources,
                          dry_run |-> dry_run_var]]_vars
    /\ [][(messagebox' # messagebox /\ messagebox' \in Refusals) =>
              /\ start_button = "normal"
              /\ start_button' = "normal"
              /\ (profile_var = "" \/ selected_resources = <<>>
                    \/ messagebox' = "confirm_no")
              /\ UNCHANGED <<profile_var, dry_run_var, resource_vars,
                             after_pending, dialogs, workerVars>>]_vars

C16_Witness ==
    /\ messagebox = "confirm_no"
    /\ profile_var # ""
    /\ selected_resources # <<>>
    /\ wpc = "dead"
    /\ start_button = "normal"

\* C17: a worker is started only while no worker is alive; the Start button
\* is disabled by the step that starts the worker, stays disabled while the
\* worker is alive with the poll pending, and is re-enabled only by the poll
\* taken when the worker is not alive.
C17_OneWorker ==
    /\ [](Alive => (start_button = "disabled" /\ after_pending))
    /\ [][(wpc # "session" /\ wpc' = "session") => ~Alive]_vars
    /\ [][(start_button = "normal" /\ start_button' = "disabled") =>
              (wpc' = "session" /\ after_pending')]_vars
    /\ [][(start_button = "disabled" /\ start_button' = "normal") =>
              (~Alive /\ after_pending /\ ~after_pending'
                 /\ messagebox' = "complete")]_vars

C17_Witness ==
    /\ wpc = "dead"
    /\ SessionOk
    /\ start_button = "normal"
    /\ messagebox = "complete"
    /\ ~after_pending

\* C19: within one region the cleaners are invoked in the order EC2, S3,
\* Lambda, CloudFormation, RDS, VPC, whatever was ticked; in particular the
\* EC2 cleaner of a region has been invoked before its VPC cleaner is.
C19_RegionalOrder ==
    /\ \A i, j \in DOMAIN events :
          (CleanAt(i) /\ CleanAt(j) /\ i < j
             /\ events[i].region # 0 /\ events[i].region = events[j].region)
          => ModulePos(events[i].module) < ModulePos(events[j].module)
    /\ \A j \in DOMAIN events :
          (CleanAt(j) /\ events[j].module = "VPC" /\ "EC2" \in Regional)
          => \E k \in 1..(j - 1) :
                /\ CleanAt(k)
                /\ events[k].module = "EC2"
                /\ events[k].region = events[j].region

C19_Witness ==
    /\ Len(regions) >= 2
    /\ \E i, j \in DOMAIN events :
          /\ i < j /\ CleanAt(i) /\ CleanAt(j)
          /\ events[i].module = "EC2" /\ events[j].module = "VPC"
          /\ events[i].region = regions[2] /\ events[j].region = regions[2]

---------------------------------------------------------------------------
(***************************************************************************)
(* Properties of update_logging.main (SpecMain).                           *)
(***************************************************************************)
\* C18: when the script has ended after being given an argument that names
\* an existing file, it has filtered that file and no other; a file of the
\* default locations is filtered only when no argument was given.
C18_ArgumentFirst ==
    mpc \in {"done", "not_found"} =>
        /\ (argv # NoArg /\ argv \in exists) => filtered = <<argv>>
        /\ (\E i \in DOMAIN filtered : filtered[i] # argv) => argv = NoArg

---------------------------------------------------------------------------
(***************************************************************************)
(* Properties of one region's security groups (SpecRegion).                *)
(***************************************************************************)
\* C11: a resource whose delete call the provider rejected because of a
\* dependency receives no further delete call in the same run.
C11_NoRetryAfterDependency ==
    \A i, j \in DOMAIN calls :
        (i < j /\ IsDelete(calls[i]) /\ results[i] = "dependency")
        => ~(/\ IsDelete(calls[j])
             /\ calls[j].kind = calls[i].kind
             /\ calls[j].id = calls[i].id)

---------------------------------------------------------------------------
(***************************************************************************)
(* Properties of the cleaners' logging calls (SpecLog).                    *)
(***************************************************************************)
ExpectedCauses == {"in_use", "has_dependents", "not_found"}
AllSucceed == \A n \in DOMAIN probe.o : probe.o[n]
\* the resources named by a "[DRY RUN] Would delete" record
WouldDelete ==
    {<<records[i].kind, records[i].id>> :
        i \in {j \in DOMAIN records :
                 records[j].dry /\ records[j].text = "would_delete"}}
\* the resources that received a delete call
LiveDeleted ==
    {<<calls[i].kind, calls[i].id>> : i \in {j \in DOMAIN calls : IsDelete(calls[j])}}
NamedIn(sink, target) ==
    \E i \in DOMAIN sink :
        sink[i].dry /\ sink[i].kind = target[1] /\ sink[i].id = target[2]

\* C12: a record that reports a provider rejection for an expected cause (in
\* use, has dependents, not found) is logged at WARNING, and a record that
\* reports any other error at ERROR.
C12_ExpectedAtWarning ==
    \A i \in DOMAIN records :
        records[i].cause # "-" =>
            IF records[i].cause \in ExpectedCauses
            THEN records[i].level = "WARNING"
            ELSE records[i].level = "ERROR"

\* C14: for the same listed resource and with every call succeeding, the
\* resources named by "[DRY RUN] Would delete" in the dry run are the
\* resources that receive a delete call in the live run.
C14_DryRunEqualsLive ==
    (modes = BOOLEAN /\ AllSucceed) => WouldDelete = LiveDeleted

\* C15: every resource that receives a delete call in the live run is named
\* by a record of the dry run written to the log file and by one written to
\* the console.
C15_DryRunRecordsWritten ==
    modes = BOOLEAN =>
        \A target \in LiveDeleted :
            NamedIn(log_file, target) /\ NamedIn(console, target)

---------------------------------------------------------------------------
(***************************************************************************)
(* Properties of TextHandler (SpecView).                                   *)
(***************************************************************************)
\* C20: a logging call of the worker leaves the widget as it is and hands
\* the record to Tk's queue; the widget changes only by a step of the GUI
\* thread that appends the oldest queued record; the lines of the widget
\* followed by the queued records are the records delivered, in the order of
\* the logging calls; the widget is in state disabled between callbacks.
C20_AppendOnGuiThread ==
    /\ [](text_state = "disabled")
    /\ [](log_text \o after_queue = log_file)
    /\ [](\A i, j \in DOMAIN log_text : i < j => log_text[i].n < log_text[j].n)
    /\ [][emits' # emits => log_text' = log_text]_vars
    /\ [][log_text' # log_text =>
              /\ emits' = emits
              /\ after_queue # <<>>
              /\ log_text' = Append(log_text, Head(after_queue))
              /\ after_queue' = Tail(after_queue)]_vars

C20_Witness ==
    /\ Len(log_text) >= 2
    /\ after_queue # <<>>
    /\ emits = MaxRecords

---------------------------------------------------------------------------
(***************************************************************************)
(* Further properties of one cleaner invocation (SpecClean).               *)
(***************************************************************************)
DetachOps ==
    {"detach_internet_gateway", "detach_vpn_gateway", "disassociate_route_table"}
DeleteFor(op) ==
    CASE op = "detach_internet_gateway" -> "delete_internet_gateway"
      [] op = "detach_vpn_gateway" -> "delete_vpn_gateway"
      [] op = "disassociate_route_table" -> "delete_route_table"

\* C21: every detach or disassociate call of the VPC cleaner is followed, with
\* only further detach calls of the same resource in between, by the delete
\* call of that resource, whatever the outcome of the detach calls; no detach
\* call of a resource comes after its delete call.
C21_DetachBeforeDelete ==
    \A i \in DOMAIN calls :
        calls[i].op \in DetachOps =>
            /\ \E j \in (i + 1)..Len(calls) :
                  /\ calls[j].op = DeleteFor(calls[i].op)
                  /\ calls[j].id = calls[i].id
                  /\ \A k \in i..(j - 1) :
                        calls[k].op = calls[i].op /\ calls[k].id = calls[i].id
            /\ \A j \in 1..(i - 1) :
                  ~(calls[j].op = DeleteFor(calls[i].op) /\ calls[j].id = calls[i].id)

C21_Witness ==
    /\ cexit = "completed"
    /\ \E i, j \in DOMAIN calls :
          /\ i < j
          /\ calls[i].op = "detach_internet_gateway"
          /\ calls[j].op = "disassociate_route_table"

\* the kinds of the calls of iam.py, by the entity they are made for
IamParts ==
    {"access_key", "inline_policy", "managed_policy", "group", "mfa_device",
     "login_profile", "instance_profile"}
IamKinds(entity) == {entity} \cup {entity \o "_" \o p : p \in IamParts}
IamRank(call) ==
    IF call.kind \in IamKinds("user") THEN 1
    ELSE IF call.kind \in IamKinds("group") THEN 2
    ELSE IF call.kind \in IamKinds("role") \cup {"instance_profile"} THEN 3
    ELSE 4

\* C22: in a live IAM clean every call that removes something a user still
\* has is followed at once by delete_user for that user, whatever the outcome
\* of the call, and never comes after it; the calls made for users come
\* before those for groups, these before those for roles, and these before
\* those for customer-managed policies.
C22_IamOrder ==
    cleaner = "IAM" =>
        /\ \A i \in DOMAIN calls :
              (calls[i].kind \in IamKinds("user") /\ calls[i].kind # "user") =>
                  /\ i < Len(calls)
                  /\ calls[i + 1].op = "delete_user"
                  /\ calls[i + 1].id = calls[i].id
                  /\ \A j \in 1..(i - 1) :
                        ~(calls[j].op = "delete_user" /\ calls[j].id = calls[i].id)
        /\ \A i, j \in DOMAIN calls :
              i < j => IamRank(calls[i]) <= IamRank(calls[j])

C22_Witness ==
    /\ cleaner = "IAM"
    /\ cexit = "completed"
    /\ Len(calls) >= 3
    /\ calls[1].op = "remove_user_from_group"
    /\ calls[2].op = "delete_user"
    /\ calls[Len(calls)].op = "delete_policy"

DeleteVpcAt(i) == calls[i].op = "delete_vpc"

\* C23: in the VPC cleaner no other call follows a delete_vpc call and
\* delete_vpc is called in step 15 only; step 15 is entered from the
\* peering-connection step only, and that step is entered only from the last
\* of steps 8 to 13 of the last VPC listed; and a live invocation that
\* completes has called delete_vpc for every non-default VPC listed, whatever
\* the outcome of the delete_vpc calls before it.
C23_DeleteVpcLast ==
    /\ [](cleaner = "VPC" =>
            /\ \A i, j \in DOMAIN calls :
                   (i < j /\ DeleteVpcAt(i)) => DeleteVpcAt(j)
            /\ (\E i \in DOMAIN calls : DeleteVpcAt(i)) =>
                   cpc \in {"delete_vpcs", "end"}
            /\ (cexit = "completed" /\ ~dry_run) =>
                   \A k \in DOMAIN vpcs :
                       ~vpcs[k].IsDefault =>
                           \E i \in DOMAIN calls :
                               DeleteVpcAt(i) /\ calls[i].id = vpcs[k].id)
    /\ [][cleaner = "VPC" =>
            /\ (cpc # "delete_vpcs" /\ cpc' = "delete_vpcs") =>
                   cpc = "peering_connections"
            /\ (cpc # "peering_connections" /\ cpc' = "peering_connections") =>
                   (cpc = "vpc_endpoints" /\ vi = Len(vpcs))]_vars

C23_Witness ==
    /\ cleaner = "VPC"
    /\ cexit = "completed"
    /\ Len(vpcs) >= 2
    /\ Len(calls) >= 3
    /\ calls[1].op = "delete_subnet"
    /\ DeleteVpcAt(Len(calls) - 1) /\ DeleteVpcAt(Len(calls))

\* the resource r met in the loop of step is one of the protected defaults
Protected(step, r) ==
    \/ step \in {"security_groups", "vpc_security_groups"} /\ r.GroupName = "default"
    \/ step = "network_acls" /\ r.IsDefault
    \/ step = "route_tables" /\ r.Main
    \/ step = "delete_vpcs" /\ r.IsDefault

ProtectedStep ==
    /\ cleaner \in {"EC2", "VPC"}
    /\ cexit = "running" /\ phase = "loop" /\ todo # <<>>
    /\ Protected(cpc, Head(todo))

\* C24: in the EC2 and VPC cleaners, in dry-run and in live mode, the loop
\* iteration over a security group named 'default', a default network ACL, a
\* main route table or a default VPC issues no call at all, no call made
\* before it names such a resource still to be iterated, and no delete_vpc
\* call ever names a default VPC of the listing.
C24_DefaultsNeverDeleted ==
    /\ [](cleaner \in {"EC2", "VPC"} =>
            /\ \A k \in DOMAIN vpcs :
                  vpcs[k].IsDefault =>
                      \A i \in DOMAIN calls :
                          ~(calls[i].kind = "vpc" /\ calls[i].id = vpcs[k].id)
            /\ (phase = "loop" /\ cpc # "delete_vpcs") =>
                  \A k \in DOMAIN todo :
                      Protected(cpc, todo[k]) =>
                          \A i \in DOMAIN calls :
                              calls[i].id = todo[k].id => calls[i].kind = "vpc")
    /\ [][ProtectedStep => calls' = calls]_vars

C24_Witness ==
    /\ cleaner = "VPC" /\ ~dry_run /\ cexit = "completed"
    /\ \E k \in DOMAIN vpcs : vpcs[k].IsDefault
    /\ \E k \in DOMAIN vpcs : ~vpcs[k].IsDefault
    /\ \E i \in DOMAIN calls : calls[i].op = "delete_vpc"

ServicePaths == {"/aws-service-role/", "/service-role/"}

RoleMutations ==
    {"delete_role_policy", "detach_role_policy",
     "remove_role_from_instance_profile", "delete_role"}

\* C25: no delete_role_policy, detach_role_policy,
\* remove_role_from_instance_profile or delete_role call of an IAM clean
\* invocation names a role whose path is '/aws-service-role/' or
\* '/service-role/', the calls of the customer-managed-policy step included.
C25_ServiceRolesUntouched ==
    cleaner = "IAM" =>
        \A i \in DOMAIN calls :
            calls[i].op \in RoleMutations => calls[i].state \notin ServicePaths

\* the same for the calls of the role step alone
C25_RoleStepSkipsServiceRoles ==
    cleaner = "IAM" =>
        \A i \in DOMAIN calls :
            (calls[i].op \in RoleMutations /\ calls[i].kind # "policy_attachment")
                => calls[i].state \notin ServicePaths

DeleteBucketAt(i) == calls[i].op = "delete_bucket"

\* the bucket's location is the region of the invocation
LocatedIn(bucket, region) ==
    \/ bucket.Location = region
    \/ bucket.Location = "null" /\ region = "us-east-1"

\* C26: in an S3 clean invocation every bucket the loop iterates over has
\* the invocation's region as its location (a null location counting as
\* us-east-1), every call names the bucket being iterated, and a bucket's
\* answer of get_bucket_location selects it in at most one region, so it
\* gets at most one delete_bucket; a delete_bucket call comes after the call
\* that deletes the objects (or versions) of the same bucket, and that call
\* returned without a provider error.
C26_BucketRegionAndOrder ==
    /\ [](cleaner = "S3" =>
            /\ \A k \in DOMAIN todo : LocatedIn(todo[k], region_name)
            /\ \A b \in s3_shapes("buckets") :
                   Cardinality({r \in RegionNames : in_region(b, r)}) <= 1
            /\ \A i, j \in DOMAIN calls :
                   (DeleteBucketAt(i) /\ DeleteBucketAt(j) /\ calls[i].id = calls[j].id)
                       => i = j
            /\ \A i \in DOMAIN calls :
                   DeleteBucketAt(i) =>
                       \E j \in 1..(i - 1) :
                           /\ calls[j].kind = "bucket_objects"
                           /\ calls[j].id = calls[i].id
                           /\ calls[j].state = "returned")
    /\ [][(cleaner = "S3" /\ calls' # calls) =>
            /\ todo # <<>>
            /\ \A i \in (Len(calls) + 1)..Len(calls') :
                   calls'[i].id = Head(todo).id]_vars

C26_Witness ==
    /\ cleaner = "S3" /\ region_name = "us-east-1" /\ cexit = "completed"
    /\ \E i, j \in DOMAIN calls :
          /\ calls[i].kind = "bucket_objects" /\ calls[i].state = "raised"
          /\ DeleteBucketAt(j) /\ calls[j].id # calls[i].id

\* clean() is over: it went through its last line, which logs
\* "Completed ... cleanup in {region}", or it left through a return statement
CleanReturned == cexit \in {"completed", "returned"}

CompletedLogged == cexit = "completed"

\* C27: a clean invocation that has returned has logged its final
\* "Completed ... cleanup" line, whatever the mode and the listings were.
C27_CompletedAlwaysLogged == CleanReturned => CompletedLogged

\* the same for the five cleaners other than S3 and VPC
C27_CompletedLoggedElsewhere ==
    (cleaner \notin {"S3", "VPC"} /\ CleanReturned) => CompletedLogged

---------------------------------------------------------------------------
(***************************************************************************)
(* Properties of filter_log_file applied twice (SpecTwice, SpecFilter).    *)
(***************************************************************************)
\* C28: the lines the second call of filter_log_file keeps are the lines the
\* first call kept, unmodified.
C28_SecondPassChangesNothing == passes = 2 => second_pass = first_pass

\* the same for the lines that do not hold " - INFO - " twice
C28_IdempotentWithoutRepeatedInfo ==
    (passes = 2 /\ ~in_line(<<"INFO", " -", " ", "INFO">>, original_line))
        => second_pass = first_pass


\* C29: no step of filter_log_file removes or changes a backup that holds
\* text, so the backup written by the first call keeps the text the file had
\* before it.
C29_BackupsNeverOverwritten ==
    [][\A b \in backups : b.content # EmptyText => b \in backups']_vars

\* the same for the calls whose timestamp differs from every earlier one
C29_BackupsKeptAcrossSeconds ==
    [][now' # now => backups \subseteq backups']_vars

---------------------------------------------------------------------------
(***************************************************************************)
(* The arguments of a running cleanup (Spec).                              *)
(***************************************************************************)
\* the worker thread is between its start and its end
WorkerRunning == wpc \notin {"idle", "dead"}

\* C30: the arguments handed to the worker thread change only in a step
\* that starts a worker while none runs; every call the worker makes carries
\* the dry-run flag of these arguments and every cleaner it invokes is one
\* of their resources, whatever the check boxes and the profile box show by
\* then; and a step of the GUI that changes a check box or the profile adds
\* no call.
C30_ArgumentsCaptured ==
    /\ [](\A i \in DOMAIN events :
            /\ events[i].dry_run = args.dry_run
            /\ events[i].op = "clean" => events[i].module \in Range(args.resources))
    /\ [][/\ args' # args =>
               (~WorkerRunning /\ wpc' = "session"
                /\ args' = [profile |-> profile_var, resources |-> selected_resources,
                            dry_run |-> dry_run_var])
          /\ (\/ dry_run_var' # dry_run_var
              \/ resource_vars' # resource_vars
              \/ profile_var' # profile_var) => events' = events]_vars

C30_Witness ==
    /\ WorkerRunning
    /\ dry_run_var # args.dry_run
    /\ args.dry_run
    /\ Range(args.resources) # resource_vars
    /\ profile_var # args.profile
    /\ \E i \in DOMAIN events :
          events[i].op = "clean" /\ events[i].module \notin resource_vars

=============================================================================
